---- MODULE Spec2Model ----
(***************************************************************************)
(* A model of the reflective Protocol Buffers codec of DmitriyMV/protobuf: *)
(* the field resolver (ProtoFields), the encoder (Encode) and the decoder  *)
(* (Decode / DecodeWithConstructors).                                      *)
(*                                                                         *)
(* Go values are modelled as follows.                                      *)
(*   - a uint64 is a sequence of 64 bits, least significant first, so that *)
(*     sign extension, truncation and the 10-byte varint of a negative     *)
(*     number keep their width;                                            *)
(*   - a byte string ([]byte, string, an encoded message) is a sequence of *)
(*     numbers 0..255; a nil and an empty sequence are the same sequence;  *)
(*   - a float is its IEEE-754 bit pattern;                                *)
(*   - a struct value is the sequence of its members' values;              *)
(*   - a pointer is [isnil |-> TRUE] or [isnil |-> FALSE, elem |-> v];     *)
(*   - a map is a function from its keys to its values.                    *)
(***************************************************************************)
EXTENDS Integers, Sequences, FiniteSets, TLC

\* ------------------------------------------------------------------ bits

RECURSIVE BitsVal(_)
\* The number a sequence of bits (least significant first) denotes.
BitsVal(bs) == IF bs = <<>> THEN 0 ELSE Head(bs) + 2 * BitsVal(Tail(bs))

\* The w low bits of the two's-complement pattern of x (|x| < 2^31).
IntBits(x, w) ==
  [k \in 1..w |-> IF k <= 31 THEN (x \div (2 ^ (k - 1))) % 2
                  ELSE IF x < 0 THEN 1 ELSE 0]

\* A value outside the numbers the model represents stops the check.
OutOfModelRange == CHOOSE x \in {} : TRUE

\* uint64(v) for a Go integer v.
ToU64(x) == IntBits(x, 64)

\* int64(u) for a uint64 u.
I64(u) ==
  IF \A k \in 32..64 : u[k] = u[64]
  THEN IF u[64] = 1 THEN (BitsVal(SubSeq(u, 1, 31)) - 2147483647) - 1
       ELSE BitsVal(SubSeq(u, 1, 31))
  ELSE OutOfModelRange

\* The number a uint64 u denotes.
U64Nat(u) == IF \A k \in 32..64 : u[k] = 0 THEN BitsVal(SubSeq(u, 1, 31))
             ELSE OutOfModelRange

\* uint64(uint32(u)): the low 32 bits, zero-extended.
ZeroExt32(u) == [k \in 1..64 |-> IF k <= 32 THEN u[k] ELSE 0]

\* uint64(int64(int32(u))): the low 32 bits, sign-extended.
SignExt32(u) == [k \in 1..64 |-> IF k <= 32 THEN u[k] ELSE u[32]]

\* The bytes of the low n*8 bits of u, little-endian.
LEBytes(u, n) == [i \in 1..n |-> BitsVal(SubSeq(u, 8 * (i - 1) + 1, 8 * i))]

\* The uint64 whose low bytes are bs (little-endian), zero-extended.
FromLEBytes(bs) ==
  [k \in 1..64 |-> IF k <= 8 * Len(bs)
                   THEN (bs[((k - 1) \div 8) + 1] \div (2 ^ ((k - 1) % 8))) % 2
                   ELSE 0]

\* ------------------------------------------------------- wire primitives

VarintType == 0
Fixed64Type == 1
BytesType == 2
Fixed32Type == 5

\* binary.MaxVarintLen64
MaxVarintLen64 == 10

\* uint64(0)
Zero64 == [k \in 1..64 |-> 0]

\* The j-th (0-based) 7-bit group of u; the tenth group holds bit 64 alone.
VarintGroup(u, j) ==
  BitsVal(SubSeq(u, 7 * j + 1, IF 7 * j + 7 > 64 THEN 64 ELSE 7 * j + 7))

\* protowire.SizeVarint(u): the groups up to the last one that is not zero.
SizeVarint(u) ==
  IF \A j \in 0..(MaxVarintLen64 - 1) : VarintGroup(u, j) = 0 THEN 1
  ELSE 1 + CHOOSE j \in 0..(MaxVarintLen64 - 1) :
             /\ VarintGroup(u, j) # 0
             /\ \A i \in (j + 1)..(MaxVarintLen64 - 1) : VarintGroup(u, i) = 0

\* The n bytes of the varint of u: base-128, low group first, the high bit of
\* a byte set when another follows.
VarintBytes(u, n) ==
  [i \in 1..n |-> VarintGroup(u, i - 1) + (IF i < n THEN 128 ELSE 0)]

\* protowire.AppendVarint(nil, u)
AppendVarint(u) == VarintBytes(u, SizeVarint(u))

\* The index of the byte that ends the varint at the head of b: the first
\* byte below 128 among the first ten; 0 when there is none.
VarintEnd(b) ==
  IF \A i \in 1..Len(b) : i > MaxVarintLen64 \/ b[i] >= 128 THEN 0
  ELSE CHOOSE i \in 1..Len(b) : b[i] < 128 /\ \A j \in 1..(i - 1) : b[j] >= 128

\* The uint64 the first n bytes of b carry, seven bits each.
VarintBits(b, n) ==
  [k \in 1..64 |->
     IF ((k - 1) \div 7) + 1 <= n
     THEN ((b[((k - 1) \div 7) + 1] % 128) \div (2 ^ ((k - 1) % 7))) % 2
     ELSE 0]

\* The varint of b that ends at byte n; a tenth byte above 1 overflows.
VarintAt(b, n) ==
  IF n = 0 \/ (n = MaxVarintLen64 /\ b[n] > 1) THEN [n |-> -1, v |-> Zero64]
  ELSE [n |-> n, v |-> VarintBits(b, n)]

\* protowire.ConsumeVarint(b): [n, v]; n < 0 is an error (truncated input,
\* or a varint that overflows 64 bits).
ConsumeVarint(b) == VarintAt(b, VarintEnd(b))

\* protowire.EncodeTag(num, typ) = uint64(num)<<3 | uint64(typ&7).
EncodeTag(num, typ) ==
  [k \in 1..64 |-> IF k <= 3 THEN (typ \div (2 ^ (k - 1))) % 2
                   ELSE IF k <= 34 THEN (num \div (2 ^ (k - 4))) % 2
                   ELSE IF num < 0 THEN 1 ELSE 0]

\* protowire.DecodeTag of a consumed varint r: [n, num, typ]; n < 0 for a bad
\* varint or a field number outside 1..2^31-1.
DecodeTag(r) ==
  IF r.n < 0 \/ (\E k \in 35..64 : r.v[k] = 1) \/ BitsVal(SubSeq(r.v, 4, 34)) < 1
  THEN [n |-> -1, num |-> 0, typ |-> 0]
  ELSE [n |-> r.n, num |-> BitsVal(SubSeq(r.v, 4, 34)),
        typ |-> BitsVal(SubSeq(r.v, 1, 3))]

\* protowire.ConsumeTag(b)
ConsumeTag(b) == DecodeTag(ConsumeVarint(b))

\* protowire.ConsumeFixed32(b): [n, v].
ConsumeFixed32(b) ==
  IF Len(b) < 4 THEN [n |-> -1, v |-> Zero64]
  ELSE [n |-> 4, v |-> FromLEBytes(SubSeq(b, 1, 4))]

\* protowire.ConsumeFixed64(b): [n, v].
ConsumeFixed64(b) ==
  IF Len(b) < 8 THEN [n |-> -1, v |-> Zero64]
  ELSE [n |-> 8, v |-> FromLEBytes(SubSeq(b, 1, 8))]

\* The payload behind the length prefix r of b: [n, m, hdr], hdr bytes of
\* prefix and m bytes of payload, n = hdr + m; n < 0 when the prefix is bad or
\* the payload is longer than what is left.
BytesAt(b, r) ==
  IF r.n < 0 \/ (\E k \in 32..64 : r.v[k] = 1)
     \/ BitsVal(SubSeq(r.v, 1, 31)) > Len(b) - r.n
  THEN [n |-> -1, m |-> 0, hdr |-> 0]
  ELSE [n |-> r.n + BitsVal(SubSeq(r.v, 1, 31)),
        m |-> BitsVal(SubSeq(r.v, 1, 31)), hdr |-> r.n]

\* protowire.ConsumeBytes(b)
ConsumeBytes(b) == BytesAt(b, ConsumeVarint(b))

\* ------------------------------------------------------------------ types
\* A type is a record with its reflect.Kind in "kind":
\*   scalars    [kind, name]           name is the Go type's name: "int" is
\*                                     the predeclared type, anything else a
\*                                     named type of that kind
\*   struct     [kind, name, fields, marshal]
\*              fields: <<[name, tag, exported, anonymous, type]>>, tag the
\*              characters of the protobuf struct tag; marshal: TRUE when the
\*              type has MarshalBinary/UnmarshalBinary
\*   ptr, slice [kind, elem]     array [kind, elem, len]
\*   map        [kind, key, elem]
\*   interface  [kind, name]

TypeName(t) == IF "name" \in DOMAIN t THEN t.name ELSE ""

\* Constructors of types.
Scalar(n) == [kind |-> n, name |-> n]
Named(n, k) == [kind |-> k, name |-> n]
StructT(n, fs) ==
  [kind |-> "struct", name |-> n, fields |-> fs, marshal |-> FALSE,
   id |-> <<>>, unmarshalErr |-> FALSE]
\* A struct type with MarshalBinary/UnmarshalBinary; id is its MarshalID
\* (<<>> when it has none); unmarshalErr: its UnmarshalBinary returns an error.
MarshalT(n, id, unmarshalErr) ==
  [kind |-> "struct", name |-> n, fields |-> <<>>, marshal |-> TRUE,
   id |-> id, unmarshalErr |-> unmarshalErr]
PtrT(e) == [kind |-> "ptr", elem |-> e]
SliceT(e) == [kind |-> "slice", elem |-> e]
NamedSliceT(n, e) == [kind |-> "slice", name |-> n, elem |-> e]
ArrayT(e, n) == [kind |-> "array", elem |-> e, len |-> n]
MapT(k, e) == [kind |-> "map", key |-> k, elem |-> e]
IfaceT(n) == [kind |-> "interface", name |-> n]

\* Constructors of struct members: exported, padding (blank or unexported)
\* and embedded (anonymous).
Fld(n, tag, t) ==
  [name |-> n, tag |-> tag, exported |-> TRUE, anonymous |-> FALSE, type |-> t]
Pad(n, tag, t) ==
  [name |-> n, tag |-> tag, exported |-> FALSE, anonymous |-> FALSE, type |-> t]
Emb(n, tag, t) ==
  [name |-> n, tag |-> tag, exported |-> TRUE, anonymous |-> TRUE, type |-> t]

\* Constructors of values.
NilPtr == [isnil |-> TRUE]
Ptr(v) == [isnil |-> FALSE, elem |-> v]
NilIface == [isnil |-> TRUE]
Iface(ct, v) == [isnil |-> FALSE, ctype |-> ct, elem |-> v]


\* The decimal digits strconv.Atoi reads.
DigitVal(c) ==
  CASE c = "0" -> 0 [] c = "1" -> 1 [] c = "2" -> 2 [] c = "3" -> 3
    [] c = "4" -> 4 [] c = "5" -> 5 [] c = "6" -> 6 [] c = "7" -> 7
    [] c = "8" -> 8 [] c = "9" -> 9 [] OTHER -> -1

RECURSIVE DigitsVal(_, _)
DigitsVal(cs, acc) ==
  IF cs = <<>> THEN acc ELSE DigitsVal(Tail(cs), 10 * acc + DigitVal(Head(cs)))

\* The digits of part behind its optional sign.
Unsigned(part) ==
  IF part # <<>> /\ Head(part) \in {"+", "-"} THEN Tail(part) ELSE part

\* strconv.Atoi(part): [ok, i]; an optional sign and at least one digit.
Atoi(part) ==
  IF Unsigned(part) = <<>> \/ \E k \in 2..Len(part) : DigitVal(part[k]) < 0
     \/ (DigitVal(Head(part)) < 0 /\ Head(part) \notin {"+", "-"})
  THEN [ok |-> FALSE, i |-> 0]
  ELSE [ok |-> TRUE,
        i |-> IF Head(part) = "-" THEN 0 - DigitsVal(Tail(part), 0)
              ELSE DigitsVal(Unsigned(part), 0)]

RECURSIVE SplitComma(_, _)
\* strings.Split(tag, ","): cur is the part being read.
SplitComma(cs, cur) ==
  IF cs = <<>> THEN <<cur>>
  ELSE IF Head(cs) = "," THEN <<cur>> \o SplitComma(Tail(cs), <<>>)
  ELSE SplitComma(Tail(cs), Append(cur, Head(cs)))

RECURSIVE ParseParts(_, _, _)
RECURSIVE ParsePart(_, _, _, _)
\* The loop of ParseTag over the parts of the tag.
ParseParts(parts, id, name) ==
  IF parts = <<>> THEN [id |-> id, name |-> name]
  ELSE ParsePart(parts, id, name, Atoi(Head(parts)))

\* One part: a number a sets the id, anything else the name.
ParsePart(parts, id, name, a) ==
  IF a.ok THEN ParseParts(Tail(parts), a.i, name)
  ELSE ParseParts(Tail(parts), id, Head(parts))

\* ParseTag(field): [id, name]; each numeric part sets the id, each other
\* part the name; an empty tag gives (0, "").
ParseTag(field) ==
  IF field.tag = <<>> THEN [id |-> 0, name |-> <<>>]
  ELSE ParseParts(SplitComma(field.tag, <<>>), 0, <<>>)

RECURSIVE innerFieldIndexes(_, _)
RECURSIVE InnerFieldLoop(_, _, _, _)
RECURSIVE InnerField(_, _, _, _, _)
RECURSIVE InnerEmbedded(_, _, _, _)
\* The loop of innerFieldIndexes over the members i..NumField of struct v:
\* [id, out].
InnerFieldLoop(v, i, id, out) ==
  IF i > Len(v.fields) THEN [id |-> id, out |-> out]
  ELSE InnerField(v, i, id, out, ParseTag(v.fields[i]))

\* Member i, tg its parsed tag: the tag's id, or the counter's next value.
InnerField(v, i, id, out, tg) ==
  IF v.fields[i].anonymous
  THEN InnerEmbedded(v, i, out,
         innerFieldIndexes((IF tg.id # 0 THEN tg.id ELSE id + 1) - 1,
                           v.fields[i].type))
  ELSE InnerFieldLoop(v, i + 1, IF tg.id # 0 THEN tg.id ELSE id + 1,
         Append(out, [ID |-> IF tg.id # 0 THEN tg.id ELSE id + 1,
                      Name |-> tg.name, Index |-> <<i>>, Field |-> v.fields[i]]))

\* A variant of InnerEmbedded after which the counter skips a number.
InnerEmbeddedSkips(v, i, out, r) ==
  InnerFieldLoop(v, i + 1, r.id + 1,
    out \o [k \in 1..Len(r.out) |-> [r.out[k] EXCEPT !.Index = <<i>> \o @]])

\* An embedded member i whose own walk gave r: its entries, each index path
\* prefixed with i.
InnerEmbedded(v, i, out, r) ==
  InnerFieldLoop(v, i + 1, r.id,
    out \o [k \in 1..Len(r.out) |-> [r.out[k] EXCEPT !.Index = <<i>> \o @]])

\* innerFieldIndexes(&id, v): [id, out], the counter after the walk and the
\* entries in declaration order.
innerFieldIndexes(id, v) ==
  IF v.kind = "ptr" THEN innerFieldIndexes(id, v.elem)
  ELSE InnerFieldLoop(v, 1, id, <<>>)

\* A variant of IDReused whose scan never finds a duplicate.
NoReuse(idx) == FALSE

\* The duplicate scan of ProtoFields: some ID is seen twice.
IDReused(idx) == \E i, j \in 1..Len(idx) : i < j /\ idx[i].ID = idx[j].ID

\* The entries idx, or the panic of the duplicate scan: [panic, idx].
CheckedFields(idx) ==
  IF IDReused(idx) THEN [panic |-> "protobuf ID reused", idx |-> <<>>]
  ELSE [panic |-> "", idx |-> idx]

\* What ProtoFields(t) computes on a cache miss: [panic, idx].
ComputeFields(t) == CheckedFields(innerFieldIndexes(0, t).out)

\* ---------------------------------------------------------------- encoder
\* An encoder is [b, err, at, res, ord, gens]: the bytes written so far; the
\* message of a panic under way ("" when none) and the names of the fields
\* whose recover handlers annotated it, innermost first; the struct types
\* ProtoFields has resolved; the order in which this call's map iterations
\* yield keys; the generator registry.

\* generators.get(id) on a registry that maps a Type Tag to the concrete
\* type its factory makes: [found, ctype].
GeneratorsGet(gens, id) ==
  IF id \in DOMAIN gens THEN [found |-> TRUE, ctype |-> gens[id]]
  ELSE [found |-> FALSE, ctype |-> PtrT(Scalar("int"))]

Write(en, bs) == IF en.err # "" THEN en ELSE [en EXCEPT !.b = @ \o bs]

\* panic(msg)
Fail(en, msg) == IF en.err # "" THEN en ELSE [en EXCEPT !.err = msg]

\* The recover handler of encoder.message: re-panic with the field's name.
Annotate(en, name) == [en EXCEPT !.at = Append(@, name)]

\* encoder.uvarint
uvarint(en, u) == Write(en, AppendVarint(u))

\* A variant of svarint that writes the zigzag form (v << 1) ^ (v >> 63).
svarintZigzag(en, v) == uvarint(en, ToU64(IF v < 0 THEN (0 - 2 * v) - 1 ELSE 2 * v))

\* encoder.svarint: uvarint(uint64(v)), no zigzag.
svarint(en, v) == uvarint(en, ToU64(v))

\* encoder.keyTag
keyTag(en, key, wt) == uvarint(en, EncodeTag(key, wt))

\* encoder.u32
u32(en, u) == Write(en, LEBytes(u, 4))

\* encoder.u64
u64(en, u) == Write(en, LEBytes(u, 8))

\* A variant of WriteBytesField that leaves the length prefix out.
WriteBytesNoLength(en, key, bs) == Write(keyTag(en, key, BytesType), bs)

\* A length-delimited field: tag, length, bytes.
WriteBytesField(en, key, bs) ==
  Write(uvarint(keyTag(en, key, BytesType), ToU64(Len(bs))), bs)

RECURSIVE FieldByIndex(_, _, _)
\* reflect's sval.FieldByIndex(path): [ok, type, val]; not ok when the path
\* passes through a nil embedded pointer (reflect panics).
FieldByIndex(t, v, path) ==
  IF Len(path) = 1
  THEN [ok |-> TRUE, type |-> t.fields[Head(path)].type, val |-> v[Head(path)]]
  ELSE IF t.fields[Head(path)].type.kind = "ptr"
  THEN IF v[Head(path)].isnil
       THEN [ok |-> FALSE, type |-> t.fields[Head(path)].type,
             val |-> v[Head(path)]]
       ELSE FieldByIndex(t.fields[Head(path)].type.elem, v[Head(path)].elem,
                         Tail(path))
  ELSE FieldByIndex(t.fields[Head(path)].type, v[Head(path)], Tail(path))

\* The bytes one element of a packed field takes.
ElemBytes(mode, e) ==
  CASE mode = "bool" -> AppendVarint(ToU64(IF e THEN 1 ELSE 0))
    [] mode = "varint" -> AppendVarint(ToU64(e))
    [] mode = "u32" -> LEBytes(ToU64(e), 4)
    [] mode = "u64" -> LEBytes(ToU64(e), 8)

RECURSIVE PackedBytes(_, _)
PackedBytes(mode, v) ==
  IF v = <<>> THEN <<>>
  ELSE ElemBytes(mode, Head(v)) \o PackedBytes(mode, Tail(v))

\* The keys of map m in the order this call's iteration yields them.
MapKeys(en, m) == SelectSeq(en.ord, LAMBDA k : k \in DOMAIN m)

\* getEncoder(val) / the BinaryMarshaler assertion: the type marshals itself.
HasMarshaler(t) ==
  \/ t.kind = "struct" /\ t.marshal
  \/ t.kind = "ptr" /\ t.elem.kind = "struct" /\ t.elem.marshal

\* The struct behind a self-marshalling value.
MarshalerValue(t, v) == IF t.kind = "ptr" THEN v.elem ELSE v
MarshalerType(t) == IF t.kind = "ptr" THEN t.elem ELSE t

\* MarshalBinary of a self-marshalling value: its payload.
MarshalBinary(t, v) == MarshalerValue(t, v).p

\* The way encoder.slice packs a slice of type t by its own type: "" when it
\* is not one of the listed slice types.
SliceMode(t) ==
  IF t.kind # "slice" \/ TypeName(t) # "" THEN ""
  ELSE CASE TypeName(t.elem) = "bool" -> "bool"
         [] TypeName(t.elem) \in {"int32", "int64", "uint32", "uint64"} -> "varint"
         [] TypeName(t.elem) \in {"Sfixed32", "Ufixed32", "float32"} -> "u32"
         [] TypeName(t.elem) \in {"Sfixed64", "Ufixed64", "float64"} -> "u64"
         [] TypeName(t.elem) = "uint8" -> "bytes"
         [] TypeName(t.elem) = "string" -> "strings"
         [] OTHER -> ""

\* The way encoder.sliceReflect packs elements of Kind k: "" when each
\* element becomes a field of its own.
ReflectMode(k) ==
  CASE k = "bool" -> "bool"
    [] k \in {"int", "int32", "int64", "uint32", "uint64"} -> "varint"
    [] k = "float32" -> "u32"
    [] k = "float64" -> "u64"
    [] k = "uint8" -> "bytes"
    [] OTHER -> ""

RECURSIVE EncValue(_, _, _, _)
RECURSIVE EncValueKind(_, _, _, _)
RECURSIVE EncMessage(_, _, _)
RECURSIVE EncResolved(_, _, _, _)
RECURSIVE EncFields(_, _, _, _, _, _)
RECURSIVE EncField(_, _, _, _, _, _, _)
RECURSIVE EncNext(_, _, _, _, _)
RECURSIVE EncEmbedded(_, _, _)
RECURSIVE EncSlice(_, _, _, _)
RECURSIVE EncSliceReflect(_, _, _, _)
RECURSIVE EncElems(_, _, _, _, _)
RECURSIVE EncStrings(_, _, _)
RECURSIVE EncMap(_, _, _, _, _)
RECURSIVE EncEntry(_, _, _, _, _, _)
RECURSIVE EntrySwapped(_, _, _, _)
RECURSIVE MapEntry(_, _, _, _)

\* encoder.message(sval): t a struct type, v its value.
EncMessage(en, t, v) ==
  IF en.err # "" THEN en ELSE EncResolved(en, t, v, ComputeFields(t))

\* encoder.message once ProtoFields(t) has returned pf.
EncResolved(en, t, v, pf) ==
  IF pf.panic # "" THEN Fail(en, pf.panic)
  ELSE IF Len(pf.idx) = 0 THEN [en EXCEPT !.res = @ \cup {t}]
  ELSE EncFields([en EXCEPT !.res = @ \cup {t}], t, v, pf.idx, 1, TRUE)

\* A variant of EncFields without the check after the loop.
EncFieldsUnchecked(en, t, v, idx, i, noPublicFields) ==
  IF i > Len(idx) THEN en
  ELSE EncField(en, t, v, idx, i, noPublicFields, FieldByIndex(t, v, idx[i].Index))

\* The loop of encoder.message from entry i on, and the check after it.
EncFields(en, t, v, idx, i, noPublicFields) ==
  IF i > Len(idx)
  THEN IF noPublicFields
       THEN Annotate(Fail(en, "struct has no serializable fields"),
                     idx[Len(idx)].Field.name)
       ELSE en
  ELSE EncField(en, t, v, idx, i, noPublicFields, FieldByIndex(t, v, idx[i].Index))

\* Entry i, f the member sval.FieldByIndex found.
EncField(en, t, v, idx, i, noPublicFields, f) ==
  IF ~f.ok
  THEN Annotate(Fail(en, "reflect: indirection through nil pointer"),
                idx[i].Field.name)
  ELSE IF idx[i].Field.exported
  THEN EncNext(EncValue(en, idx[i].ID, f.type, f.val), t, v, idx, i)
  ELSE EncFields(en, t, v, idx, i + 1, noPublicFields)

\* After entry i has been written: its panic annotated, or the next entry.
EncNext(e2, t, v, idx, i) ==
  IF e2.err # "" THEN Annotate(e2, idx[i].Field.name)
  ELSE EncFields(e2, t, v, idx, i + 1, FALSE)

\* encoder.value, the switch on val.Type().
EncValue(en, key, t, v) ==
  IF en.err # "" THEN en
  ELSE CASE TypeName(t) = "bool" ->
              uvarint(keyTag(en, key, VarintType), ToU64(IF v THEN 1 ELSE 0))
         [] TypeName(t) \in {"int", "int32", "int64"} ->
              svarint(keyTag(en, key, VarintType), v)
         [] TypeName(t) \in {"uint", "uint32", "uint64"} ->
              uvarint(keyTag(en, key, VarintType), ToU64(v))
         [] TypeName(t) \in {"Sfixed32", "Ufixed32", "float32"} ->
              u32(keyTag(en, key, Fixed32Type), ToU64(v))
         [] TypeName(t) \in {"Sfixed64", "Ufixed64", "float64"} ->
              u64(keyTag(en, key, Fixed64Type), ToU64(v))
         [] TypeName(t) = "string" -> WriteBytesField(en, key, v)
         [] OTHER -> EncValueKind(en, key, t, v)

\* A variant of EncInterfaceMarshaler that never writes the Type Tag.
EncInterfaceUntagged(en, key, ct, cv) ==
  WriteBytesField(en, key, MarshalBinary(ct, cv))

\* The tag-and-payload an abstract field's self-marshalling value gets.
EncInterfaceMarshaler(en, key, ct, cv) ==
  WriteBytesField(en, key,
    (IF MarshalerType(ct).id # <<>>
        /\ GeneratorsGet(en.gens, MarshalerType(ct).id).found
     THEN MarshalerType(ct).id ELSE <<>>) \o MarshalBinary(ct, cv))

\* The embedded message emb written as a field of en.
EncEmbedded(en, key, emb) ==
  IF emb.err # "" THEN emb
  ELSE WriteBytesField([en EXCEPT !.res = emb.res], key, emb.b)

\* encoder.value, the switch on val.Kind().
EncValueKind(en, key, t, v) ==
  CASE t.kind = "bool" ->
         uvarint(keyTag(en, key, VarintType), ToU64(IF v THEN 1 ELSE 0))
    [] t.kind \in {"int", "int32", "int64"} ->
         svarint(keyTag(en, key, VarintType), v)
    [] t.kind \in {"uint32", "uint64"} ->
         uvarint(keyTag(en, key, VarintType), ToU64(v))
    [] t.kind = "float32" -> u32(keyTag(en, key, Fixed32Type), ToU64(v))
    [] t.kind = "float64" -> u64(keyTag(en, key, Fixed64Type), ToU64(v))
    [] t.kind = "string" -> WriteBytesField(en, key, v)
    [] t.kind = "struct" ->
         IF HasMarshaler(t) THEN WriteBytesField(en, key, MarshalBinary(t, v))
         ELSE EncEmbedded(en, key, EncMessage([en EXCEPT !.b = <<>>], t, v))
    [] t.kind \in {"slice", "array"} -> EncSlice(en, key, t, v)
    [] t.kind = "ptr" -> IF v.isnil THEN en ELSE EncValue(en, key, t.elem, v.elem)
    [] t.kind = "interface" ->
         IF v.isnil THEN en
         ELSE IF HasMarshaler(v.ctype)
         THEN EncInterfaceMarshaler(en, key, v.ctype, v.elem)
         ELSE EncValue(en, key, v.ctype, v.elem)
    [] t.kind = "map" -> EncMap(en, key, t, v, MapKeys(en, v))
    [] OTHER -> Fail(en, "unsupported field Kind")

\* encoder.slice: the type switch on the slice's own type.
EncSlice(en, key, t, v) ==
  CASE SliceMode(t) \in {"bool", "varint", "u32", "u64"} ->
         WriteBytesField(en, key, PackedBytes(SliceMode(t), v))
    [] SliceMode(t) = "bytes" -> WriteBytesField(en, key, v)
    [] SliceMode(t) = "strings" -> EncStrings(en, key, v)
    [] OTHER -> EncSliceReflect(en, key, t, v)

\* The []string case of encoder.slice: one field per element.
EncStrings(en, key, v) ==
  IF v = <<>> THEN en
  ELSE EncStrings(WriteBytesField(en, key, Head(v)), key, Tail(v))

\* encoder.sliceReflect: the switch on the element's Kind.
EncSliceReflect(en, key, t, v) ==
  CASE ReflectMode(t.elem.kind) \in {"bool", "varint", "u32", "u64"} ->
         WriteBytesField(en, key, PackedBytes(ReflectMode(t.elem.kind), v))
    [] ReflectMode(t.elem.kind) = "bytes" -> WriteBytesField(en, key, v)
    [] OTHER ->
         IF t.elem.kind \in {"slice", "array"} /\ t.elem.elem.kind # "uint8"
         THEN Fail(en, "protobuf: no support for 2-dimensional array except for [][]byte")
         ELSE EncElems(en, key, t.elem, v, 1)

\* The default case of sliceReflect: each element as a field of its own.
EncElems(en, key, et, v, i) ==
  IF en.err # "" \/ i > Len(v) THEN en
  ELSE EncElems(EncValue(en, key, et, v[i]), key, et, v, i + 1)

\* A variant of MapEntry that numbers the key 2 and the value 1.
EntrySwapped(en, t, mkey, mval) ==
  EncValue(EncValue([en EXCEPT !.b = <<>>], 2, t.key, mkey), 1, t.elem, mval)

\* The entry message of handleMap: the key as field 1, the value as field 2.
MapEntry(en, t, mkey, mval) ==
  EncValue(EncValue([en EXCEPT !.b = <<>>], 1, t.key, mkey), 2, t.elem, mval)

\* encoder.handleMap over the keys ks still to be written.
EncMap(en, key, t, m, ks) ==
  IF en.err # "" \/ ks = <<>> THEN en
  ELSE IF t.elem.kind = "ptr" /\ m[Head(ks)].isnil
  THEN Fail(en, "proto: map has nil element")
  ELSE IF t.elem.kind \in {"slice", "array"} /\ t.elem.elem.kind # "uint8"
  THEN Fail(en, "protobuf: map only support []byte or string as repeated value")
  ELSE EncEntry(en, key, t, m, ks, MapEntry(en, t, Head(ks), m[Head(ks)]))

\* The entry message packed written as a field, and the keys after it.
EncEntry(en, key, t, m, ks, packed) ==
  IF packed.err # "" THEN packed
  ELSE EncMap(WriteBytesField([en EXCEPT !.res = packed.res], key, packed.b),
              key, t, m, Tail(ks))

\* A variant of Encoded that returns the bytes written before the panic.
EncodedPartial(en) == [err |-> en.err, at |-> en.at, b |-> en.b, res |-> en.res]

\* What Encode returns once the encoder has run: the deferred recover turns a
\* panic into the error, and the bytes are returned only without one.
Encoded(en) ==
  [err |-> en.err, at |-> en.at, b |-> IF en.err # "" THEN <<>> ELSE en.b,
   res |-> en.res]

\* Encode(structPtr) for structPtr a pointer to a value v of type t:
\* [err, at, b, res]; b is nil whenever err is set.
Encode(gens, ord, res, t, v) ==
  IF HasMarshaler(t)
  THEN [err |-> "", at |-> <<>>, b |-> MarshalBinary(t, v), res |-> res]
  ELSE IF t.kind # "struct"
  THEN [err |-> "reflect: NumField of non-struct type", at |-> <<>>,
        b |-> <<>>, res |-> res]
  ELSE Encoded(EncMessage([b |-> <<>>, err |-> "", at |-> <<>>, res |-> res,
                           ord |-> ord, gens |-> gens], t, v))

\* ---------------------------------------------------------------- decoder
\* A buffer is a slice [b, off, cap] of the input: its bytes, where it starts
\* in the input's backing array, and its capacity.
SliceFrom(buf, n) ==
  [b |-> SubSeq(buf.b, n + 1, Len(buf.b)), off |-> buf.off + n, cap |-> buf.cap - n]

\* buf[n:][:m]
SliceTo(buf, n, m) ==
  [b |-> SubSeq(buf.b, n + 1, n + m), off |-> buf.off + n, cap |-> buf.cap - n]

\* A variant of ClipCap that keeps the capacity of the slice it is given.
KeepCap(vb) == vb

\* vb[:len(vb):len(vb)]
ClipCap(vb) == [vb EXCEPT !.cap = Len(vb.b)]

NilBuf == [b |-> <<>>, off |-> 0, cap |-> 0]

\* A decoder is [nm, gens, res, views, stalled]: the Constructor Table (abstract type
\* name -> the concrete type its factory makes), the generator registry, the
\* struct types ProtoFields has resolved, and the header (off, len, cap) and
\* bytes b of every byte slice stored into the destination; stalled marks
\* a loop that did not shorten its buffer or a payload as long as the buffer
\* it came from.
\* A result is [err, panic, at, val, d]: the error ("" when none), whether it
\* travels as a panic, the fields decoder.message annotated it with
\* (innermost first), the destination value as the call left it, the decoder.
Ok(d, val) == [err |-> "", panic |-> FALSE, at |-> <<>>, val |-> val, d |-> d]
Err(d, val, msg) == [err |-> msg, panic |-> FALSE, at |-> <<>>, val |-> val, d |-> d]
Panic(d, val, msg) == [err |-> msg, panic |-> TRUE, at |-> <<>>, val |-> val, d |-> d]

RECURSIVE Zero(_)
\* reflect.Zero(t)
Zero(t) ==
  CASE t.kind = "bool" -> FALSE
    [] t.kind = "struct" ->
         IF t.marshal THEN [p |-> <<>>]
         ELSE [i \in 1..Len(t.fields) |-> Zero(t.fields[i].type)]
    [] t.kind \in {"ptr", "interface"} -> [isnil |-> TRUE]
    [] t.kind \in {"slice", "map", "string"} -> <<>>
    [] t.kind = "array" -> [i \in 1..t.len |-> Zero(t.elem)]
    [] OTHER -> 0

\* decoder.instantiate(t): [panic, val].
Instantiate(d, t) ==
  IF t.kind = "interface"
  THEN IF t.name \in DOMAIN d.nm
       THEN [panic |-> FALSE,
             val |-> Iface(d.nm[t.name], Ptr(Zero(d.nm[t.name].elem)))]
       ELSE [panic |-> TRUE, val |-> NilIface]
  ELSE [panic |-> FALSE, val |-> Ptr(Zero(t))]

\* decoder.decodeSignedInt: [ok, u], u the bits of the int64.
decodeSignedInt(wt, u) ==
  CASE wt = VarintType -> [ok |-> TRUE, u |-> u]
    [] wt = Fixed32Type -> [ok |-> TRUE, u |-> SignExt32(u)]
    [] wt = Fixed64Type -> [ok |-> TRUE, u |-> u]
    [] OTHER -> [ok |-> FALSE, u |-> u]

\* reflect's SetInt on a field of kind k: the int64 cut to the field's width.
SetInt(k, u) == IF k = "int32" THEN I64(SignExt32(u)) ELSE I64(u)

\* reflect's SetUint on a field of kind k.
SetUint(k, u) == IF k = "uint32" THEN U64Nat(ZeroExt32(u)) ELSE U64Nat(u)

\* Member i of v after the walk of decoder.message has met it: a nil
\* pointer is replaced by a pointer to a new zero value.
Allocated(t, v, i) ==
  IF t.fields[i].type.kind = "ptr" /\ v[i].isnil
  THEN Ptr(Zero(t.fields[i].type.elem)) ELSE v[i]

\* The result r of the walk below member i, put back into v.
AllocInner(t, v, i, r) ==
  [panic |-> r.panic,
   v |-> [v EXCEPT ![i] = IF t.fields[i].type.kind = "ptr" THEN Ptr(r.v) ELSE r.v]]

RECURSIVE AllocPath(_, _, _)
\* The walk of decoder.message along a field's index path, allocating every
\* nil pointer on it (the field itself included): [panic, v]. Setting a
\* pointer that is not settable panics.
AllocPath(t, v, path) ==
  IF t.fields[Head(path)].type.kind = "ptr" /\ v[Head(path)].isnil
     /\ ~t.fields[Head(path)].exported
  THEN [panic |-> TRUE, v |-> v]
  ELSE IF Len(path) = 1
  THEN [panic |-> FALSE, v |-> [v EXCEPT ![Head(path)] = Allocated(t, v, Head(path))]]
  ELSE IF t.fields[Head(path)].type.kind = "ptr"
  THEN AllocInner(t, v, Head(path),
         AllocPath(t.fields[Head(path)].type.elem,
                   Allocated(t, v, Head(path)).elem, Tail(path)))
  ELSE AllocInner(t, v, Head(path),
         AllocPath(t.fields[Head(path)].type, v[Head(path)], Tail(path)))

RECURSIVE SetPath(_, _, _, _)
\* The struct v with the field at path set to nv (no nil pointer on the path).
SetPath(t, v, path, nv) ==
  IF Len(path) = 1 THEN [v EXCEPT ![Head(path)] = nv]
  ELSE IF t.fields[Head(path)].type.kind = "ptr"
  THEN [v EXCEPT ![Head(path)] =
          Ptr(SetPath(t.fields[Head(path)].type.elem, v[Head(path)].elem,
                      Tail(path), nv))]
  ELSE [v EXCEPT ![Head(path)] =
          SetPath(t.fields[Head(path)].type, v[Head(path)], Tail(path), nv)]

\* A variant of AdvanceCursor that looks for the entry from the first one on.
AdvanceFromStart(fields, fieldi, fieldnum) ==
  IF \E i \in 1..Len(fields) : fields[i].ID >= fieldnum
  THEN CHOOSE i \in 1..Len(fields) :
         /\ fields[i].ID >= fieldnum
         /\ \A j \in 1..(i - 1) : fields[j].ID < fieldnum
  ELSE Len(fields) + 1

RECURSIVE AdvanceCursor(_, _, _)
\* for fieldi < len(fields) && fields[fieldi].ID < fieldnum { fieldi++ }
AdvanceCursor(fields, fieldi, fieldnum) ==
  IF fieldi <= Len(fields) /\ fields[fieldi].ID < fieldnum
  THEN AdvanceCursor(fields, fieldi + 1, fieldnum)
  ELSE fieldi

\* A variant of ResetFields that leaves the destination as it is.
ResetNothing(t, v) == v

\* The zeroing loop at the head of decoder.message: every settable member
\* that is not of interface kind.
ResetFields(t, v) ==
  [i \in 1..Len(t.fields) |->
     IF t.fields[i].type.kind # "interface" /\ t.fields[i].exported
     THEN Zero(t.fields[i].type) ELSE v[i]]

\* len(GeneratorID{})
GeneratorIDLen == 8

\* A destination handed to decoder.value: [set, t, v], whether it is settable
\* (a zero reflect.Value and a padding field are not), its type, its value.
NoField == [set |-> FALSE, t |-> Scalar("bool"), v |-> FALSE]
Settable(t, v) == [set |-> TRUE, t |-> t, v |-> v]

WithVal(r, val) == [r EXCEPT !.val = val]
WithRem(r, rem) ==
  [err |-> r.err, panic |-> r.panic, at |-> r.at, val |-> r.val, d |-> r.d,
   rem |-> rem]

\* The result r without what is left of its buffer.
NoRem(r) == [err |-> r.err, panic |-> r.panic, at |-> r.at, val |-> r.val, d |-> r.d]

\* UnmarshalBinary(data) of a self-marshalling struct type t: [ok, val].
UnmarshalBinary(t, data) ==
  IF t.unmarshalErr THEN [ok |-> FALSE, val |-> [p |-> <<>>]]
  ELSE [ok |-> TRUE, val |-> [p |-> data]]

\* A scalar c that decoder.value consumed: [n, u, vb, err].
Consumed(c, msg) ==
  [n |-> c.n, u |-> c.v, vb |-> NilBuf, err |-> IF c.n <= 0 THEN msg ELSE ""]

\* A length-delimited payload c that decoder.value consumed from buf; the
\* slice of it is cut to its own length.
ConsumedBytes(buf, c) ==
  [n |-> c.n, u |-> Zero64,
   vb |-> IF c.n <= 0 THEN NilBuf ELSE ClipCap(SliceTo(buf, c.hdr, c.m)),
   err |-> IF c.n <= 0 THEN "bad protobuf length-delimited value" ELSE ""]

\* The switch of decoder.value on the wire type: [n, u, vb, err].
ConsumeValue(wt, buf) ==
  CASE wt = VarintType -> Consumed(ConsumeVarint(buf.b), "bad protobuf varint value")
    [] wt = Fixed32Type -> Consumed(ConsumeFixed32(buf.b), "bad protobuf 32-bit value")
    [] wt = Fixed64Type -> Consumed(ConsumeFixed64(buf.b), "bad protobuf 64-bit value")
    [] wt = BytesType -> ConsumedBytes(buf, ConsumeBytes(buf.b))
    [] OTHER -> [n |-> 0, u |-> Zero64, vb |-> NilBuf,
                 err |-> "unknown protobuf wire-type"]

\* A variant of Discard that rejects the field.
DiscardRejects(d, fld) == Err(d, fld.v, "unknown field")

\* putvalue on a destination that cannot be set: the content is ignored.
Discard(d, fld) == Ok(d, fld.v)

\* The packed wire type decoder.slice reads elements of type e with.
PackedWireType(e) ==
  CASE e.kind \in {"float32"} -> Fixed32Type
    [] e.kind \in {"float64"} -> Fixed64Type
    [] TypeName(e) \in {"Sfixed32", "Ufixed32"} -> Fixed32Type
    [] TypeName(e) \in {"Sfixed64", "Ufixed64"} -> Fixed64Type
    [] OTHER -> VarintType

\* The header and bytes of the byte slice vb.
View(vb) == [off |-> vb.off, len |-> Len(vb.b), cap |-> vb.cap, b |-> vb.b]

RECURSIVE DecMessage(_, _, _, _)
RECURSIVE DecResolved(_, _, _, _, _)
RECURSIVE DecLoop(_, _, _, _, _, _)
RECURSIVE DecTag(_, _, _, _, _, _, _)
RECURSIVE DecField(_, _, _, _, _, _, _)
RECURSIVE DecAlloc(_, _, _, _, _, _, _, _)
RECURSIVE DecStore(_, _, _, _, _, _, _)
RECURSIVE DecValue(_, _, _, _)
RECURSIVE DecPayload(_, _, _, _, _)
RECURSIVE PutValue(_, _, _, _, _)
RECURSIVE PutNilPtr(_, _, _, _, _, _)
RECURSIVE PutInterface(_, _, _, _, _)
RECURSIVE PutGenerated(_, _, _, _, _)
RECURSIVE PutInstance(_, _, _, _, _)
RECURSIVE PutInto(_, _, _, _, _)
RECURSIVE DecSlice(_, _, _, _)
RECURSIVE DecPacked(_, _, _, _, _, _)
RECURSIVE DecElem(_, _, _, _, _)
RECURSIVE DecMapEntry(_, _, _, _)
RECURSIVE DecMapKey(_, _, _, _, _)
RECURSIVE DecMapValue(_, _, _)
RECURSIVE DecMapRest(_, _, _, _)
RECURSIVE DecMapField(_, _, _, _, _)
RECURSIVE DecMapFold(_, _, _)

\* decoder.value(wiretype, buf, val): the result and the rest of the buffer.
DecValue(d, wt, buf, fld) == DecPayload(d, wt, buf, fld, ConsumeValue(wt, buf))

\* The decoder d, marked when the length-delimited payload vb is not shorter
\* than the buffer buf it was cut from.
Cut(d, wt, buf, vb) ==
  IF wt = BytesType /\ Len(vb.b) >= Len(buf.b) THEN [d EXCEPT !.stalled = TRUE]
  ELSE d

\* A variant of DecPayload that leaves the buffer where it was.
DecPayloadKeeps(d, wt, buf, fld, c) ==
  IF c.err # "" THEN WithRem(Err(d, fld.v, c.err), buf)
  ELSE WithRem(PutValue(Cut(d, wt, buf, c.vb), wt, fld, c.u, c.vb), buf)

\* decoder.value once the payload c is cut off the buffer.
DecPayload(d, wt, buf, fld, c) ==
  IF c.err # "" THEN WithRem(Err(d, fld.v, c.err), buf)
  ELSE WithRem(PutValue(Cut(d, wt, buf, c.vb), wt, fld, c.u, c.vb),
               SliceFrom(buf, c.n))

\* The result r of a loop's iteration that began with len0 bytes left, marked
\* as stalled when it left as many: the loop would go round for ever, and
\* the model stops it there.
Stalled(r, len0) == r.err = "" /\ Len(r.rem.b) >= len0
Stall(r) == [NoRem(r) EXCEPT !.d.stalled = TRUE]

\* The signed integer sv stored into a field of kind k.
PutSigned(d, fld, sv) ==
  IF ~sv.ok THEN Err(d, fld.v, "bad wiretype for sint")
  ELSE Ok(d, SetInt(fld.t.kind, sv.u))

\* What UnmarshalBinary returned, stored: val is the value kept on an error.
PutUnmarshaled(d, val, um, wrap) ==
  IF ~um.ok THEN Err(d, val, "fail to unmarshal")
  ELSE Ok(d, IF wrap THEN Iface(val.ctype, Ptr(um.val)) ELSE um.val)

\* The pointer to what r decoded.
WrapPtr(r) == WithVal(r, Ptr(r.val))

\* The appended slice after r decoded one element.
Appended(t, slval, r) ==
  IF r.err # "" THEN WithVal(r, slval)
  ELSE IF t.kind # "slice" THEN Err(r.d, slval, "append to non-slice")
  ELSE Ok(r.d, Append(slval, r.val))

\* The result r of the nested Decode into the value behind the interface
\* val; the nested call has its own recover and an empty Constructor Table.
Nested(d, val, r) ==
  [err |-> r.err, panic |-> FALSE, at |-> r.at,
   val |-> Iface(val.ctype, Ptr(r.val)), d |-> [r.d EXCEPT !.nm = d.nm]]

\* decoder.putvalue, the interface case.
PutInterface(d, wt, fld, u, vb) ==
  IF ~fld.v.isnil THEN PutInto(d, wt, fld.v, vb, vb)
  ELSE PutGenerated(d, wt, fld, vb,
         IF GeneratorIDLen < Len(vb.b)
         THEN GeneratorsGet(d.gens, SubSeq(vb.b, 1, GeneratorIDLen))
         ELSE [found |-> FALSE, ctype |-> PtrT(Scalar("int"))])

\* A variant of PutGenerated that goes to the Constructor Table at once.
PutConstructed(d, wt, fld, vb, g) ==
  PutInstance(d, wt, fld, vb, Instantiate(d, fld.t))

\* A nil interface: the generator g of the payload's Type Tag, or the
\* Constructor Table.
PutGenerated(d, wt, fld, vb, g) ==
  IF g.found
  THEN PutInto(d, wt, Iface(g.ctype, Ptr(Zero(g.ctype.elem))),
               SliceFrom(vb, GeneratorIDLen), vb)
  ELSE PutInstance(d, wt, fld, vb, Instantiate(d, fld.t))

\* A nil interface set to what decoder.instantiate returned.
PutInstance(d, wt, fld, vb, inst) ==
  IF inst.panic THEN Panic(d, fld.v, "no constructor for interface")
  ELSE PutInto(d, wt, inst.val, vb, vb)

\* The payload decoded into the value val the interface holds: data is the
\* payload behind the Type Tag, vb the whole of it.
PutInto(d, wt, val, data, vb) ==
  IF HasMarshaler(val.ctype)
  THEN IF wt # BytesType THEN Err(d, val, "bad wiretype for bytes")
       ELSE PutUnmarshaled(d, val,
              UnmarshalBinary(MarshalerType(val.ctype), data.b), TRUE)
  ELSE IF val.ctype.kind # "ptr"
  THEN Err(d, val, "decode has been given a non pointer type")
  ELSE IF val.elem.isnil THEN Err(d, val, "not a struct")
  ELSE Nested(d, val,
         DecMessage([d EXCEPT !.nm = <<>>], vb, val.ctype.elem, val.elem.elem))

\* A nil pointer set to what decoder.instantiate returned, then decoded into.
PutNilPtr(d, wt, fld, u, vb, inst) ==
  IF fld.t.elem.kind = "interface"
  THEN Panic(d, fld.v, IF inst.panic THEN "no constructor for interface"
                       ELSE "reflect.Set: value is not assignable")
  ELSE WrapPtr(PutValue(d, wt, Settable(fld.t.elem, inst.val.elem), u, vb))

\* decoder.putvalue(wiretype, val, v, vb).
PutValue(d, wt, fld, u, vb) ==
  IF ~fld.set THEN Discard(d, fld)
  ELSE CASE fld.t.kind = "bool" ->
              IF wt # VarintType THEN Err(d, fld.v, "bad wiretype for bool")
              ELSE IF (\E i \in 2..64 : u[i] = 1)
              THEN Err(d, fld.v, "invalid bool value")
              ELSE Ok(d, u[1] = 1)
         [] fld.t.kind \in {"int", "int32", "int64"} ->
              PutSigned(d, fld, decodeSignedInt(wt, u))
         [] fld.t.kind \in {"uint", "uint32", "uint64"} ->
              IF wt \notin {VarintType, Fixed32Type, Fixed64Type}
              THEN Err(d, fld.v, "bad wiretype for uint")
              ELSE Ok(d, SetUint(fld.t.kind,
                                 IF wt = Fixed32Type THEN ZeroExt32(u) ELSE u))
         [] fld.t.kind = "float32" ->
              IF wt # Fixed32Type THEN Err(d, fld.v, "bad wiretype for float32")
              ELSE Ok(d, U64Nat(ZeroExt32(u)))
         [] fld.t.kind = "float64" ->
              IF wt # Fixed64Type THEN Err(d, fld.v, "bad wiretype for float64")
              ELSE Ok(d, U64Nat(u))
         [] fld.t.kind = "string" ->
              IF wt # BytesType THEN Err(d, fld.v, "bad wiretype for string")
              ELSE Ok(d, vb.b)
         [] fld.t.kind = "struct" ->
              IF fld.t.marshal
              THEN PutUnmarshaled(d, fld.v, UnmarshalBinary(fld.t, vb.b), FALSE)
              ELSE IF wt # BytesType
              THEN Err(d, fld.v, "bad wiretype for embedded message")
              ELSE DecMessage(d, vb, fld.t, fld.v)
         [] fld.t.kind = "ptr" ->
              IF fld.v.isnil
              THEN PutNilPtr(d, wt, fld, u, vb, Instantiate(d, fld.t.elem))
              ELSE WrapPtr(PutValue(d, wt, Settable(fld.t.elem, fld.v.elem), u, vb))
         [] fld.t.kind \in {"slice", "array"} ->
              IF wt # BytesType
              THEN Err(d, fld.v, "bad wiretype for repeated field")
              ELSE DecSlice(d, fld.t, fld.v, vb)
         [] fld.t.kind = "map" ->
              IF wt # BytesType
              THEN Err(d, fld.v, "bad wiretype for repeated field")
              ELSE DecMapEntry(d, fld.t, fld.v, vb)
         [] fld.t.kind = "interface" -> PutInterface(d, wt, fld, u, vb)
         [] OTHER -> Panic(d, fld.v, "unsupported value kind")

\* decoder.slice(slval, vb).
DecSlice(d, t, slval, vb) ==
  CASE t.elem.kind \in {"bool", "int32", "int64", "int", "uint32", "uint64",
                        "uint", "float32", "float64"} ->
         DecPacked(d, t, slval, vb, PackedWireType(t.elem), Zero(t.elem))
    [] t.elem.kind = "uint8" ->
         IF t.kind = "array"
         THEN IF t.len # Len(vb.b)
              THEN Err(d, slval, "array length and buffer length differ")
              ELSE Ok(d, vb.b)
         ELSE Ok([d EXCEPT !.views = @ \cup {View(vb)}], vb.b)
    [] OTHER ->
         Appended(t, slval,
           PutValue(d, BytesType, Settable(t.elem, Zero(t.elem)), ToU64(0), vb))

\* The loop of decoder.slice over a packed payload; val is the one temporary
\* every element is decoded into.
DecPacked(d, t, slval, vb, wt, val) ==
  IF Len(vb.b) = 0 THEN Ok(d, slval)
  ELSE DecElem(t, slval, wt, Len(vb.b), DecValue(d, wt, vb, Settable(t.elem, val)))

\* One element decoded with result r: appended, and the loop goes on.
DecElem(t, slval, wt, len0, r) ==
  IF r.err # "" THEN WithVal(NoRem(r), slval)
  ELSE IF Stalled(r, len0) THEN WithVal(Stall(r), slval)
  ELSE IF t.kind # "slice"
  THEN Panic(r.d, slval, "reflect.Append: not a slice")
  ELSE DecPacked(r.d, t, Append(slval, r.val), r.rem, wt, r.val)

\* decoder.mapEntry(slval, vb).
DecMapEntry(d, t, m, vb) == DecMapKey(d, t, m, vb, ConsumeTag(vb.b))

\* The key of the entry, behind its tag.
DecMapKey(d, t, m, vb, tag) ==
  IF tag.n <= 0 THEN Err(d, m, "bad protobuf field key")
  ELSE DecMapValue(t, m, DecValue(d, tag.typ, SliceFrom(vb, tag.n),
                                  Settable(t.key, Zero(t.key))))

\* slval.SetMapIndex(key, val) once the value is decoded with result r.
DecMapNext(m, k, r) ==
  IF r.err # "" THEN WithVal(r, m)
  ELSE Ok(r.d, [x \in DOMAIN m \cup {k} |-> IF x = k THEN r.val ELSE m[x]])

\* The value of the entry, rk the result of decoding its key.
DecMapValue(t, m, rk) ==
  IF rk.err # "" THEN WithVal(NoRem(rk), m)
  ELSE DecMapNext(m, rk.val, DecMapRest(rk.d, rk.rem, t, Zero(t.elem)))

\* The loop of decoder.mapEntry that folds every further field into the value.
DecMapRest(d, buf, t, v) ==
  IF Len(buf.b) = 0 THEN Ok(d, v)
  ELSE DecMapField(d, buf, t, v, ConsumeTag(buf.b))

\* One further field of the entry, behind its tag.
DecMapField(d, buf, t, v, tag) ==
  IF tag.n <= 0 THEN Err(d, v, "bad protobuf field key")
  ELSE DecMapFold(t, Len(buf.b), DecValue(d, tag.typ, SliceFrom(buf, tag.n),
                                           Settable(t.elem, v)))

\* The value after one further field, decoded with result r.
DecMapFold(t, len0, r) ==
  IF r.err # "" THEN NoRem(r)
  ELSE IF Stalled(r, len0) THEN Stall(r)
  ELSE DecMapRest(r.d, r.rem, t, r.val)

\* decoder.message(buf, sval).
DecMessage(d, buf, t, v) ==
  IF t.kind # "struct" THEN Err(d, v, "not a struct")
  ELSE DecResolved(d, buf, t, ResetFields(t, v), ComputeFields(t))

\* decoder.message once the members are zeroed and ProtoFields has returned.
DecResolved(d, buf, t, v, pf) ==
  IF pf.panic # "" THEN Panic(d, v, pf.panic)
  ELSE DecLoop([d EXCEPT !.res = @ \cup {t}], buf, t, v, pf.idx, 1)

\* The field loop of decoder.message with the cursor at fields[fieldi].
DecLoop(d, buf, t, v, fields, fieldi) ==
  IF Len(buf.b) = 0 THEN Ok(d, v)
  ELSE DecTag(d, buf, t, v, fields, fieldi, ConsumeTag(buf.b))

\* The cursor moved up to the field number of the tag.
DecTag(d, buf, t, v, fields, fieldi, tag) ==
  IF tag.n <= 0 THEN Err(d, v, "bad protobuf field key")
  ELSE DecField(d, SliceFrom(buf, tag.n), t, v, fields,
                AdvanceCursor(fields, fieldi, tag.num), tag)

\* The cursor's entry is the field the tag names.
Matches(fields, fi, fieldnum) == fi <= Len(fields) /\ fields[fi].ID = fieldnum

\* The lookup of the struct field: the pointers on a matched entry's index
\* path are allocated; without a match the field stays a zero Value.
DecField(d, buf, t, v, fields, fi, tag) ==
  DecAlloc(d, buf, t, v, fields, fi, tag,
           IF Matches(fields, fi, tag.num) THEN AllocPath(t, v, fields[fi].Index)
           ELSE [panic |-> FALSE, v |-> v])

\* The destination decoder.value is handed for the cursor's entry.
FieldAt(t, v, fields, fi, fieldnum) ==
  IF Matches(fields, fi, fieldnum)
  THEN [set |-> fields[fi].Field.exported, t |-> fields[fi].Field.type,
        v |-> FieldByIndex(t, v, fields[fi].Index).val]
  ELSE NoField

\* de.value on the field, al the struct after the walk of the index path.
DecAlloc(d, buf, t, v, fields, fi, tag, al) ==
  IF al.panic
  THEN Panic(d, v, "reflect.Value.Set using value obtained using unexported field")
  ELSE DecStore(t, al.v, fields, fi, Len(buf.b) + tag.n,
                Matches(fields, fi, tag.num) /\ fields[fi].Field.exported,
                DecValue(d, tag.typ, buf, FieldAt(t, al.v, fields, fi, tag.num)))

\* The struct v with what r decoded stored into the cursor's field.
Stored(t, v, fields, fi, store, r) ==
  IF store THEN SetPath(t, v, fields[fi].Index, r.val) ELSE v

\* After de.value returned r: the error wrapped with the cursor's field, or
\* the loop goes on behind the field.
DecStore(t, v, fields, fi, len0, store, r) ==
  IF r.panic THEN WithVal(NoRem(r), Stored(t, v, fields, fi, store, r))
  ELSE IF r.err # ""
  THEN [err |-> r.err, panic |-> FALSE,
        at |-> IF fi <= Len(fields) THEN Append(r.at, fields[fi].Field.name)
               ELSE r.at,
        val |-> Stored(t, v, fields, fi, store, r), d |-> r.d]
  ELSE IF Stalled(r, len0)
  THEN WithVal(Stall(r), Stored(t, v, fields, fi, store, r))
  ELSE DecLoop(r.d, r.rem, t, Stored(t, v, fields, fi, store, r), fields, fi)

\* What DecodeWithConstructors returns for a self-unmarshalling destination.
Unmarshaled(res, v, um) ==
  [err |-> IF um.ok THEN "" ELSE "fail to unmarshal", at |-> <<>>,
   val |-> IF um.ok THEN um.val ELSE v, res |-> res, views |-> {},
   recovered |-> FALSE, stalled |-> FALSE]

\* A variant of Returned without the deferred recover: the panic's message
\* never becomes the returned error.
ReturnedUnrecovered(r) ==
  [err |-> IF r.panic THEN "" ELSE r.err, at |-> r.at, val |-> r.val,
   res |-> r.d.res, views |-> r.d.views, recovered |-> r.panic,
   stalled |-> r.d.stalled]

\* What DecodeWithConstructors returns once decoder.message has run: the
\* deferred recover turns a panic into the error.
Returned(r) ==
  [err |-> r.err, at |-> r.at, val |-> r.val, res |-> r.d.res,
   views |-> r.d.views, recovered |-> r.panic, stalled |-> r.d.stalled]

\* DecodeWithConstructors(buf, structPtr, cons) for structPtr a pointer to a
\* value v of type t: [err, at, val, res, views, recovered].
DecodeWithConstructors(gens, res, buf, t, v, cons) ==
  IF HasMarshaler(t) THEN Unmarshaled(res, v, UnmarshalBinary(t, buf))
  ELSE Returned(DecMessage([nm |-> cons, gens |-> gens, res |-> res, views |-> {},
                            stalled |-> FALSE],
                           [b |-> buf, off |-> 0, cap |-> Len(buf)], t, v))

\* Decode(buf, structPtr)
Decode(gens, res, buf, t, v) == DecodeWithConstructors(gens, res, buf, t, v, <<>>)

\* -------------------------------------------------------------- catalogue
\* The types and values the codec is run on. Strings are written as their
\* bytes: "abc" is <<97, 98, 99>>.

Ufixed32 == Named("Ufixed32", "uint32")
Ufixed64 == Named("Ufixed64", "uint64")
Sfixed32 == Named("Sfixed32", "int32")
Sfixed64 == Named("Sfixed64", "int64")
myint32 == Named("myint32", "int32")

Test1 == StructT("Test1", <<Fld("A", <<>>, Scalar("uint32"))>>)
Test3 ==
  StructT("Test3", <<Pad("_", <<>>, IfaceT("interface {}")),
                     Pad("_", <<>>, IfaceT("interface {}")),
                     Fld("C", <<>>, Test1)>>)
Private == StructT("Private", <<Pad("a", <<>>, Scalar("int"))>>)
Public == StructT("Public", <<Fld("A", <<>>, Scalar("int"))>>)
Empty == StructT("Empty", <<Fld("Empty", <<>>, PtrT(Scalar("string")))>>)
T ==
  StructT("T", <<Fld("Buf1", <<>>, SliceT(Scalar("uint8"))),
                 Fld("Buf2", <<>>, SliceT(Scalar("uint8")))>>)
typ == StructT("typ", <<Fld("M", <<>>, MapT(Scalar("string"), Scalar("bool")))>>)
cipherText ==
  StructT("cipherText", <<Fld("A", <<>>, Scalar("int32")),
                          Fld("B", <<>>, Scalar("int32"))>>)
wrongTestMsg ==
  StructT("wrongTestMsg",
          <<Fld("M", <<>>, MapT(Scalar("uint32"), SliceT(cipherText)))>>)
rightTestMsg ==
  StructT("rightTestMsg",
          <<Fld("M", <<>>, MapT(Scalar("uint32"), PtrT(cipherText)))>>)
WrongSliceInt ==
  StructT("WrongSliceInt", <<Fld("Ints", <<>>, SliceT(SliceT(Scalar("int"))))>>)
WrongSliceUint ==
  StructT("WrongSliceUint",
          <<Fld("UInts", <<>>, SliceT(SliceT(Scalar("uint16"))))>>)
TestDuplicateID ==
  StructT("TestDuplicateID", <<Fld("A", <<"1">>, Scalar("int32")),
                               Fld("B", <<"1">>, Scalar("int32"))>>)
TestNestedInner ==
  StructT("TestNestedInner",
          <<Fld("A", <<>>, Scalar("int32")),
            Fld("B", <<"1", "0">>, Scalar("int32")),
            Fld("C", <<"r", "e", "n", "a", "m", "e", "d">>, Scalar("int32"))>>)
TestNestedOuter ==
  StructT("TestNestedOuter",
          <<Fld("A", <<>>, Scalar("int32")),
            Emb("TestNestedInner", <<>>, PtrT(TestNestedInner))>>)
emb ==
  StructT("emb", <<Fld("I32", <<>>, Scalar("int32")),
                   Fld("S", <<>>, Scalar("string"))>>)

\* dummyStruct.MarshalID()
DummyID == <<97, 97, 97, 97, 97, 97, 97, 97>>
dummyStruct == MarshalT("dummyStruct", DummyID, TRUE)
dummyWrapper ==
  StructT("dummyWrapper", <<Fld("D", <<>>, IfaceT("dummyInterface"))>>)
\* A dummyInterface whose UnmarshalBinary keeps the data it is given; its
\* MarshalID is "bbbbbbbb".
TaggedID == <<98, 98, 98, 98, 98, 98, 98, 98>>
taggedDummy == MarshalT("taggedDummy", TaggedID, FALSE)

\* Types beside those of the repository's tests.
\* struct { A int `protobuf:"2"`; B int `protobuf:"1"` }
Descending ==
  StructT("Descending", <<Fld("A", <<"2">>, Scalar("int")),
                          Fld("B", <<"1">>, Scalar("int"))>>)
\* struct { A int `protobuf:"1"`; B int `protobuf:"3"` }
Gap ==
  StructT("Gap", <<Fld("A", <<"1">>, Scalar("int")),
                   Fld("B", <<"3">>, Scalar("int"))>>)
\* struct { A int `protobuf:"-1"`; B int }
Negative ==
  StructT("Negative", <<Fld("A", <<"-", "1">>, Scalar("int")),
                        Fld("B", <<>>, Scalar("int"))>>)
\* struct { A int `protobuf:"0"`; B int }
ZeroTag ==
  StructT("ZeroTag", <<Fld("A", <<"0">>, Scalar("int")),
                       Fld("B", <<>>, Scalar("int"))>>)
\* struct { X int32 `protobuf:"1"` }
tagged1 == StructT("tagged1", <<Fld("X", <<"1">>, Scalar("int32"))>>)
\* struct { A int; tagged1 }: A and the flattened X both get number 1.
DuplicateEmbedded ==
  StructT("DuplicateEmbedded",
          <<Fld("A", <<>>, Scalar("int")), Emb("tagged1", <<>>, tagged1)>>)
\* A cut of the test struct of TestProtobuf, with a padding member.
mixed ==
  StructT("mixed",
          <<Fld("Bool", <<"b", "o", "o", "l", "e", "a", "n", ",", "o", "p", "t">>,
                Scalar("bool")),
            Fld("I32", <<>>, Scalar("int32")),
            Fld("U64", <<>>, Scalar("uint64")),
            Fld("SX32", <<>>, Sfixed32),
            Fld("UX64", <<>>, Ufixed64),
            Fld("Bytes", <<>>, SliceT(Scalar("uint8"))),
            Fld("String", <<>>, Scalar("string")),
            Fld("Struct", <<>>, emb),
            Pad("pad", <<>>, Scalar("int")),
            Fld("OI32", <<"5", "0">>, PtrT(myint32))>>)
\* struct { A int; Ints [][]int }
PartialSlice ==
  StructT("PartialSlice", <<Fld("A", <<>>, Scalar("int")),
                            Fld("Ints", <<>>, SliceT(SliceT(Scalar("int"))))>>)
\* struct { B [][]byte }
ByteSlices ==
  StructT("ByteSlices", <<Fld("B", <<>>, SliceT(SliceT(Scalar("uint8"))))>>)
\* struct { M map[string][]byte }
BytesMap ==
  StructT("BytesMap",
          <<Fld("M", <<>>, MapT(Scalar("string"), SliceT(Scalar("uint8"))))>>)
\* struct { M map[int32]string }
StringMap ==
  StructT("StringMap", <<Fld("M", <<>>, MapT(Scalar("int32"), Scalar("string")))>>)
\* struct { Field1 int32; _ struct{}; Field3 int32; _ int; Field5 int32 }
padded ==
  StructT("padded", <<Fld("Field1", <<>>, Scalar("int32")),
                      Pad("_", <<>>, StructT("", <<>>)),
                      Fld("Field3", <<>>, Scalar("int32")),
                      Pad("_", <<>>, Scalar("int")),
                      Fld("Field5", <<>>, Scalar("int32"))>>)
\* struct { A uint32; p *uint32; C uint32 }
PaddedPtr ==
  StructT("PaddedPtr", <<Fld("A", <<>>, Scalar("uint32")),
                         Pad("p", <<>>, PtrT(Scalar("uint32"))),
                         Fld("C", <<>>, Scalar("uint32"))>>)
\* struct { M map[uint32]uint32 }
UintMap ==
  StructT("UintMap", <<Fld("M", <<>>, MapT(Scalar("uint32"), Scalar("uint32")))>>)
\* struct { Bytes [][]byte; I string; Ptr *bool }
simpleFilledInput ==
  StructT("simpleFilledInput",
          <<Fld("Bytes", <<>>, SliceT(SliceT(Scalar("uint8")))),
            Fld("I", <<>>, Scalar("string")),
            Fld("Ptr", <<>>, PtrT(Scalar("bool")))>>)
\* Int (named IntT here) marshals itself and has no MarshalID; a value of
\* it is written as the bytes MarshalBinary returns for it.
IntT == MarshalT("Int", <<>>, FALSE)
Wrapper == StructT("Wrapper", <<Fld("N", <<>>, IfaceT("Number"))>>)
IntNoMarshal == StructT("IntNoMarshal", <<Fld("N", <<>>, Scalar("int"))>>)
WrapperNoMarshal ==
  StructT("WrapperNoMarshal", <<Fld("N", <<>>, IfaceT("NumberNoMarshal"))>>)
\* struct { Wrapper }
Holder == StructT("Holder", <<Emb("Wrapper", <<>>, Wrapper)>>)
\* A second implementation of dummyInterface, whose UnmarshalBinary keeps
\* the bytes it is given.
otherDummy == MarshalT("otherDummy", <<>>, FALSE)
\* Abstract members below the top level: struct { W WrapperNoMarshal },
\* struct { W *WrapperNoMarshal }, struct { W []WrapperNoMarshal },
\* struct { M map[uint32]*WrapperNoMarshal }; and struct { S Shape } where
\* Shape is implemented by *Box, Box being struct { N NumberNoMarshal }
\* without UnmarshalBinary.
InStruct == StructT("InStruct", <<Fld("W", <<>>, WrapperNoMarshal)>>)
InPtr == StructT("InPtr", <<Fld("W", <<>>, PtrT(WrapperNoMarshal))>>)
InSlice == StructT("InSlice", <<Fld("W", <<>>, SliceT(WrapperNoMarshal))>>)
InMap ==
  StructT("InMap", <<Fld("M", <<>>, MapT(Scalar("uint32"), PtrT(WrapperNoMarshal)))>>)
Box == StructT("Box", <<Fld("N", <<>>, IfaceT("NumberNoMarshal"))>>)
InAbstract == StructT("InAbstract", <<Fld("S", <<>>, IfaceT("Shape"))>>)
\* struct {}
NoMembers == StructT("NoMembers", <<>>)
\* struct { E NoMembers }
HasNoMembers == StructT("HasNoMembers", <<Fld("E", <<>>, NoMembers)>>)
\* struct { P Private }
HasPrivate == StructT("HasPrivate", <<Fld("P", <<>>, Private)>>)
\* struct { A int; P *Private }
HasPrivatePtr ==
  StructT("HasPrivatePtr", <<Fld("A", <<>>, Scalar("int")),
                             Fld("P", <<>>, PtrT(Private))>>)
\* struct { A int `protobuf:"5"`; B int; Public; Z int }
Numbered ==
  StructT("Numbered", <<Fld("A", <<"5">>, Scalar("int")),
                        Fld("B", <<>>, Scalar("int")),
                        Emb("Public", <<>>, Public),
                        Fld("Z", <<>>, Scalar("int"))>>)

\* Bounds of the model.
\* The longest generated repeated field and byte string.
MaxElems == 2
\* The most known fields a hand-built input carries.
MaxFields == 2
\* The most bytes one append adds.
MaxAppend == 3
\* The callers of ProtoFields that run concurrently, and the calls they make.
NProcs == 2
MaxCalls == 3

\* The sequences over S of length at most n.
SeqsUpTo(S, n) == UNION {[1..k -> S] : k \in 0..n}

\* The orders in which the keys K can be met.
Perms(K) ==
  {s \in [1..Cardinality(K) -> K] : \A i, j \in 1..Cardinality(K) : s[i] = s[j] => i = j}

DigitChar(d) == <<"0", "1", "2", "3", "4", "5", "6", "7", "8", "9">>[d + 1]

RECURSIVE Itoa(_)
\* The decimal digits of k > 0, as a struct tag writes them.
Itoa(k) ==
  IF k < 10 THEN <<DigitChar(k)>> ELSE Append(Itoa(k \div 10), DigitChar(k % 10))

\* struct { A []e }
Rep(e) == StructT("Rep", <<Fld("A", <<>>, SliceT(e))>>)
\* struct { A e `protobuf:"k"` }
IntStruct(e, k) == StructT("IntStruct", <<Fld("A", Itoa(k), e)>>)
\* struct { C n `protobuf:"k"` }
Outer(n, k) == StructT("Outer", <<Fld("C", Itoa(k), n)>>)

PackedElems ==
  <<Scalar("bool"), Scalar("int"), Scalar("int32"), Scalar("int64"),
    Scalar("uint"), Scalar("uint32"), Scalar("uint64"),
    Sfixed32, Sfixed64, Ufixed32, Ufixed64,
    Scalar("float32"), Scalar("float64")>>
IntTypes ==
  <<Scalar("int"), Scalar("int32"), Scalar("int64"),
    Scalar("uint"), Scalar("uint32"), Scalar("uint64"), myint32>>
NestedTypes == <<Test1, Public>>
KeyNums == {1, 2, 16}

\* The values a generated field of type e takes.
ElemVals(e) ==
  CASE e.kind = "bool" -> BOOLEAN
    [] e.kind \in {"int", "int32", "int64"} -> {37, -1}
    [] e.kind \in {"float32", "float64"} -> {0, 1065353216}
    [] OTHER -> {1, 150}
IntVals(e) ==
  IF e.kind \in {"int", "int32", "int64"} THEN {0, 37, -1} ELSE {0, 37, 150}

\* "test", "abc", "def", "ghijkl"
StrTest == <<116, 101, 115, 116>>
StrAbc == <<97, 98, 99>>
StrDef == <<100, 101, 102>>
StrGhi == <<103, 104, 105, 106, 107, 108>>

\* The hand-picked values: [t, v], a struct type and a value of it.
Samples ==
  <<[t |-> Test1, v |-> <<150>>],
    [t |-> Test3, v |-> <<NilIface, NilIface, <<150>> >>],
    [t |-> Private, v |-> <<37>>],
    [t |-> Public, v |-> <<37>>],
    [t |-> Empty, v |-> <<Ptr(<<98>>)>>],
    [t |-> Empty, v |-> <<NilPtr>>],
    [t |-> T, v |-> <<StrAbc, StrDef>>],
    [t |-> typ, v |-> <<[k \in {<<>>, StrTest} |-> TRUE]>>],
    [t |-> typ, v |-> <<[k \in {<<>>} |-> FALSE]>>],
    [t |-> typ, v |-> << <<>> >>],
    [t |-> StringMap, v |-> <<[k \in {0, 7} |-> IF k = 0 THEN <<>> ELSE StrAbc]>>],
    [t |-> BytesMap, v |-> <<[k \in {StrAbc, StrDef} |-> k]>>],
    [t |-> ByteSlices, v |-> << <<StrAbc, <<>>, StrDef>> >>],
    [t |-> rightTestMsg, v |-> <<[k \in {1} |-> Ptr(<<4, 5>>)]>>],
    [t |-> rightTestMsg, v |-> <<[k \in {1} |-> NilPtr]>>],
    [t |-> rightTestMsg,
     v |-> <<[k \in {1, 2} |-> IF k = 1 THEN Ptr(<<4, 5>>) ELSE NilPtr]>>],
    [t |-> wrongTestMsg, v |-> <<[k \in {1} |-> << <<0, 0>>, <<0, 0>> >>]>>],
    [t |-> wrongTestMsg, v |-> << <<>> >>],
    [t |-> WrongSliceInt, v |-> << << <<1, 2, 3>>, <<4, 5, 6>> >> >>],
    [t |-> WrongSliceInt, v |-> << <<>> >>],
    [t |-> WrongSliceUint, v |-> << << <<1, 2, 3>>, <<4, 5, 6>> >> >>],
    [t |-> PartialSlice, v |-> <<37, << <<1>> >> >>],
    [t |-> dummyWrapper, v |-> <<Iface(PtrT(dummyStruct), Ptr([p |-> <<1, 2, 3>>]))>>],
    [t |-> dummyWrapper, v |-> <<Iface(PtrT(dummyStruct), Ptr([p |-> <<>>]))>>],
    [t |-> dummyWrapper,
     v |-> <<Iface(PtrT(dummyStruct), Ptr([p |-> StrGhi \o StrAbc]))>>],
    [t |-> dummyWrapper, v |-> <<NilIface>>],
    [t |-> dummyWrapper, v |-> <<Iface(PtrT(taggedDummy), Ptr([p |-> <<1, 2, 3>>]))>>],
    [t |-> dummyWrapper, v |-> <<Iface(PtrT(taggedDummy), Ptr([p |-> <<>>]))>>],
    [t |-> UintMap, v |-> <<(1 :> 7)>>],
    [t |-> Negative, v |-> <<1, 2>>],
    [t |-> ZeroTag, v |-> <<1, 2>>],
    [t |-> Descending, v |-> <<1, 2>>],
    [t |-> Descending, v |-> <<1, 0>>],
    [t |-> Gap, v |-> <<5, 7>>],
    [t |-> TestNestedOuter, v |-> <<13, Ptr(<<12, 14, 15>>)>>],
    [t |-> TestDuplicateID, v |-> <<1, 2>>],
    [t |-> DuplicateEmbedded, v |-> <<1, <<2>> >>],
    [t |-> Numbered, v |-> <<1, 2, <<3>>, 4>>],
    [t |-> simpleFilledInput, v |-> << <<StrAbc, StrDef>>, StrTest, Ptr(TRUE)>>],
    [t |-> simpleFilledInput, v |-> << <<StrGhi>>, StrAbc, Ptr(FALSE)>>],
    [t |-> simpleFilledInput, v |-> << <<>>, <<>>, NilPtr>>],
    [t |-> Wrapper, v |-> <<Iface(PtrT(IntT), Ptr([p |-> <<99>>]))>>],
    [t |-> Wrapper, v |-> <<Iface(PtrT(IntT), Ptr([p |-> <<0>>]))>>],
    [t |-> Wrapper, v |-> <<NilIface>>],
    [t |-> WrapperNoMarshal, v |-> <<Iface(PtrT(IntNoMarshal), Ptr(<<99>>))>>],
    [t |-> WrapperNoMarshal, v |-> <<Iface(PtrT(IntNoMarshal), Ptr(<<0>>))>>],
    [t |-> InStruct, v |-> << <<Iface(PtrT(IntNoMarshal), Ptr(<<99>>))>> >>],
    [t |-> InPtr, v |-> <<Ptr(<<Iface(PtrT(IntNoMarshal), Ptr(<<99>>))>>)>>],
    [t |-> InSlice, v |-> << <<<<Iface(PtrT(IntNoMarshal), Ptr(<<99>>))>>>> >>],
    [t |-> InMap, v |-> <<(1 :> Ptr(<<Iface(PtrT(IntNoMarshal), Ptr(<<99>>))>>))>>],
    [t |-> InAbstract,
     v |-> <<Iface(PtrT(Box), Ptr(<<Iface(PtrT(IntNoMarshal), Ptr(<<99>>))>>))>>],
    [t |-> Holder, v |-> << <<Iface(PtrT(IntT), Ptr([p |-> <<99>>]))>> >>],
    [t |-> Holder, v |-> << <<Iface(PtrT(IntT), Ptr([p |-> <<0>>]))>> >>],
    [t |-> NoMembers, v |-> <<>>],
    [t |-> HasNoMembers, v |-> << <<>> >>],
    [t |-> HasPrivate, v |-> << <<37>> >>],
    [t |-> HasPrivatePtr, v |-> <<1, Ptr(<<37>>)>>],
    [t |-> HasPrivatePtr, v |-> <<1, NilPtr>>],
    [t |-> mixed,
     v |-> <<TRUE, -1, 300, -1, 5, StrAbc, StrTest, <<-2, StrDef>>, 9, Ptr(-1)>>],
    [t |-> mixed,
     v |-> <<FALSE, 0, 0, 0, 0, <<>>, <<>>, <<0, <<>> >>, 0, NilPtr>>]>>

\* ---------------------------------------------------------- state machine
\* st, sv   the struct type and the value the program encodes
\* gens     the generator registry: Type Tag -> the type its factory makes
\* cache    the field cache of ProtoFields: struct type -> entries
\* enc      the last Encode call: the registry and map order it ran under,
\*          its error and bytes
\* dec      the last Decode call: its input, destination before the call
\*          (fresh: a zero value), Constructor Table, registry, and its error,
\*          the destination after the call and the byte-slice headers stored
\*          into it
\* raw      the hand-built input of this run: known fields ks and a field u
\*          of an unknown number put after the first pos of them
\* mem      the backing array of the last Decode's input
\* out      the slice the last append returned
\* lock, pc, arg, loc, ret, ncalls   the concurrent callers of ProtoFields:
\*          the holder of cacheLock (0: free), each caller's position,
\*          argument, locals (idx, ok) and last outcome (again: the caller's
\*          call before it was on the same type), and the calls begun
VARIABLES st, sv, raw, gens, cache, enc, dec, mem, out, lock, pc, arg, loc, ret, ncalls

vars == <<st, sv, raw, gens, cache, enc, dec, mem, out, lock, pc, arg, loc, ret, ncalls>>
fvars == <<lock, pc, arg, loc, ret, ncalls>>

Procs == 1..NProcs

NoEnc ==
  [done |-> FALSE, gens |-> <<>>, ord |-> <<>>, err |-> "", at |-> <<>>, b |-> <<>>]
NoRaw == [ks |-> <<>>, u |-> [num |-> 0, wt |-> 0, body |-> <<>>], pos |-> 0]
NoDec ==
  [src |-> "none", in |-> <<>>, dst |-> <<>>, fresh |-> FALSE, cons |-> <<>>,
   gens |-> <<>>, err |-> "", at |-> <<>>, val |-> <<>>, views |-> {},
   recovered |-> FALSE, hand |-> 0, stalled |-> FALSE, chunks |-> <<>>]
NoRet == [called |-> FALSE, t |-> Test1, panic |-> "", idx |-> <<>>, again |-> FALSE]

\* The cache once ProtoFields has resolved the types res.
CacheOf(res) == [t \in res |-> ComputeFields(t).idx]

\* The orders in which ranging over the map members of v can yield their keys.
MapOrders(t, v) ==
  Perms(UNION {DOMAIN v[i] : i \in {j \in 1..Len(t.fields) : t.fields[j].type.kind = "map"}})

\* The concrete type the factory for the abstract type named n makes.
Implementer(n) ==
  CASE n = "Number" -> PtrT(IntT)
    [] n = "NumberNoMarshal" -> PtrT(IntNoMarshal)
    [] n = "Shape" -> PtrT(Box)
    [] OTHER -> PtrT(otherDummy)

\* The abstract types a value of type t can hold members of, at any depth.
RECURSIVE AbstractNames(_)
AbstractNames(t) ==
  CASE t.kind = "interface" -> {t.name} \cup AbstractNames(Implementer(t.name))
    [] t.kind \in {"ptr", "slice", "array", "map"} -> AbstractNames(t.elem)
    [] t.kind = "struct" ->
         UNION {AbstractNames(t.fields[i].type) :
                  i \in {j \in 1..Len(t.fields) : t.fields[j].exported}}
    [] OTHER -> {}

\* A Constructor Table with a factory for every abstract member of t.
ConstructorsFor(t) == [n \in AbstractNames(t) |-> Implementer(n)]

\* The fields a hand-built input for t is made of: [num, wt, body], a field
\* number, a wire type and the bytes after the tag.
KnownFields(t) ==
  IF t = Gap THEN {[num |-> 1, wt |-> VarintType, body |-> <<5>>],
                   [num |-> 3, wt |-> VarintType, body |-> <<7>>]}
  ELSE {}
UnknownFields(t) ==
  IF t = Gap
  THEN {[num |-> n, wt |-> f.wt, body |-> f.body] :
          n \in {2, 4},
          f \in {[wt |-> VarintType, body |-> <<9>>],
                 [wt |-> Fixed64Type, body |-> <<1, 2, 3, 4, 5, 6, 7, 8>>],
                 [wt |-> BytesType, body |-> <<2, 8, 9>>],
                 [wt |-> Fixed32Type, body |-> <<1, 2, 3, 4>>]}}
  ELSE {}

\* protowire.AppendTag and the field's bytes.
FieldBytes(f) == AppendVarint(EncodeTag(f.num, f.wt)) \o f.body

RECURSIVE InputBytes(_)
InputBytes(fs) == IF fs = <<>> THEN <<>> ELSE FieldBytes(Head(fs)) \o InputBytes(Tail(fs))

\* Hand-written map entries for a map[uint32]uint32: key 1 and value 7 in
\* both orders, the key alone, the value alone, two values, a value under
\* number 3, no field at all.
VarintField(n, x) == [num |-> n, wt |-> VarintType, body |-> <<x>>]
MapEntries ==
  << <<VarintField(1, 1), VarintField(2, 7)>>,
     <<VarintField(2, 7), VarintField(1, 1)>>,
     <<VarintField(1, 1)>>,
     <<VarintField(2, 7)>>,
     <<VarintField(1, 1), VarintField(2, 7), VarintField(2, 9)>>,
     <<VarintField(1, 1), VarintField(3, 7)>>,
     <<>> >>

\* Hand-written payloads for the one member of t: the map entries, or for
\* an abstract member the Type Tag alone, the tag and one byte, three bytes.
HandPayloads(t) ==
  IF t = UintMap THEN [i \in 1..Len(MapEntries) |-> InputBytes(MapEntries[i])]
  ELSE IF t = dummyWrapper THEN <<DummyID, DummyID \o <<1>>, <<1, 2, 3>>>>
  ELSE <<>>

\* Field 1, length-delimited, with payload p.
PayloadField(p) ==
  [num |-> 1, wt |-> BytesType, body |-> AppendVarint(ToU64(Len(p))) \o p]

\* The fields ks with the field u put after the first pos of them.
InsertAt(ks, u, pos) == SubSeq(ks, 1, pos) \o <<u>> \o SubSeq(ks, pos + 1, Len(ks))

IdleFields ==
  /\ lock = 0
  /\ pc = [p \in Procs |-> "idle"]
  /\ arg = [p \in Procs |-> Test1]
  /\ loc = [p \in Procs |-> [idx |-> <<>>, ok |-> FALSE]]
  /\ ret = [p \in Procs |-> NoRet]
  /\ ncalls = 0

Init ==
  /\ \/ \E i \in 1..Len(Samples) :
          st = Samples[i].t /\ sv = Samples[i].v /\ raw = NoRaw
     \/ \E i \in 1..Len(PackedElems) :
          \E xs \in SeqsUpTo(ElemVals(PackedElems[i]), MaxElems) :
            st = Rep(PackedElems[i]) /\ sv = <<xs>> /\ raw = NoRaw
     \/ \E i \in 1..Len(IntTypes) : \E k \in KeyNums : \E x \in IntVals(IntTypes[i]) :
          st = IntStruct(IntTypes[i], k) /\ sv = <<x>> /\ raw = NoRaw
     \/ \E i \in 1..Len(NestedTypes) : \E k \in KeyNums :
          \E x \in IntVals(NestedTypes[i].fields[1].type) :
            st = Outer(NestedTypes[i], k) /\ sv = << <<x>> >> /\ raw = NoRaw
     \/ \E b1, b2 \in SeqsUpTo({97}, MaxElems) :
          st = T /\ sv = <<b1, b2>> /\ raw = NoRaw
     \/ \E ks \in SeqsUpTo(KnownFields(Gap), MaxFields) : \E u \in UnknownFields(Gap) :
          \E pos \in 0..Len(ks) :
            st = Gap /\ sv = <<5, 7>> /\ raw = [ks |-> ks, u |-> u, pos |-> pos]
  /\ gens = <<>>
  /\ cache = <<>>
  /\ enc = NoEnc
  /\ dec = NoDec
  /\ mem = <<>>
  /\ out = <<>>
  /\ IdleFields

\* protobuf.Encode(&sv)
CallEncode ==
  /\ \E ord \in MapOrders(st, sv) :
       LET r == Encode(gens, ord, DOMAIN cache, st, sv)
       IN  /\ enc' = [done |-> TRUE, gens |-> gens, ord |-> ord, err |-> r.err,
                      at |-> r.at, b |-> r.b]
           /\ cache' = CacheOf(r.res)
  /\ UNCHANGED <<st, sv, raw, gens, dec, mem, out, fvars>>

\* The record of a Decode call that returned r.
Decoded(src, in, dst, cons, r) ==
  [src |-> src, in |-> in, dst |-> dst, fresh |-> dst = Zero(st), cons |-> cons,
   gens |-> gens,
   err |-> r.err, at |-> r.at, val |-> r.val, views |-> r.views,
   recovered |-> r.recovered, hand |-> 0, stalled |-> r.stalled,
   chunks |-> <<>>]

\* What a destination of type st holds before a call: nothing (k = 0), a
\* hand-picked value of the type (k an index of Samples), the value that was
\* encoded, or what the Decode before this one left in it.
HasPrior(k) ==
  \/ k = 0
  \/ k \in 1..Len(Samples) /\ Samples[k].t = st
  \/ k = Len(Samples) + 1
  \/ k = Len(Samples) + 2 /\ dec.src = "enc"
Prior(k) ==
  IF k = 0 THEN Zero(st)
  ELSE IF k <= Len(Samples) THEN Samples[k].v
  ELSE IF k = Len(Samples) + 1 THEN sv
  ELSE dec.val

\* protobuf.Decode(buf, &d) or DecodeWithConstructors(buf, &d, cons) on what
\* the last Encode returned (no bytes when it failed), d fresh or holding a
\* value from before.
CallDecode ==
  /\ enc.done
  /\ \E k \in 0..(Len(Samples) + 2) :
     \E withCons \in {FALSE} \cup {DOMAIN ConstructorsFor(st) # {}} :
       LET dst == Prior(k)
           cons == IF withCons THEN ConstructorsFor(st) ELSE <<>>
           r == DecodeWithConstructors(gens, DOMAIN cache, enc.b, st, dst, cons)
       IN  /\ HasPrior(k)
           /\ dec' = Decoded(IF enc.err = "" THEN "enc" ELSE "noenc",
                             enc.b, dst, cons, r)
           /\ cache' = CacheOf(r.res)
           /\ mem' = enc.b
           /\ out' = <<>>
  /\ UNCHANGED <<st, sv, raw, gens, enc, fvars>>

\* protobuf.Decode(buf, &d) on the hand-built input, which carries a field
\* whose number the destination does not know, d fresh.
CallDecodeRaw ==
  /\ raw # NoRaw
  /\ LET in == InputBytes(InsertAt(raw.ks, raw.u, raw.pos))
         r == Decode(gens, DOMAIN cache, in, st, Zero(st))
     IN  /\ dec' = Decoded("raw", in, Zero(st), <<>>, r)
         /\ cache' = CacheOf(r.res)
         /\ mem' = in
         /\ out' = <<>>
  /\ UNCHANGED <<st, sv, raw, gens, enc, fvars>>

\* protobuf.Decode(buf, &d) or DecodeWithConstructors(buf, &d, cons) on a
\* hand-written input of one length-delimited field, d fresh.
CallDecodeBytes ==
  /\ \E k \in 1..Len(HandPayloads(st)) :
     \E withCons \in {FALSE} \cup {DOMAIN ConstructorsFor(st) # {}} :
       LET in == FieldBytes(PayloadField(HandPayloads(st)[k]))
           cons == IF withCons THEN ConstructorsFor(st) ELSE <<>>
           r == DecodeWithConstructors(gens, DOMAIN cache, in, st, Zero(st), cons)
       IN  /\ dec' = [Decoded("bytes", in, Zero(st), cons, r) EXCEPT !.hand = k]
           /\ cache' = CacheOf(r.res)
           /\ mem' = in
           /\ out' = <<>>
  /\ UNCHANGED <<st, sv, raw, gens, enc, fvars>>

\* b1 := append(d.Buf, xs...) on a byte slice the last Decode stored: within
\* the slice's capacity the bytes go into the backing array it shares with
\* the input, beyond it into a new array.
CallAppend ==
  /\ \E w \in dec.views : \E n \in 1..MaxAppend :
       LET xs == SubSeq(StrGhi, 1, n)
           at == w.off + w.len
       IN  /\ mem' = IF w.len + n <= w.cap
                     THEN [i \in 1..Len(mem) |->
                             IF i \in (at + 1)..(at + n) THEN xs[i - at] ELSE mem[i]]
                     ELSE mem
           /\ out' = w.b \o xs
  /\ UNCHANGED <<st, sv, raw, gens, cache, enc, dec, fvars>>

\* The type whose factory is registered: the self-marshalling type with a
\* MarshalID the value holds, dummyStruct when it holds none.
Registrable ==
  IF st = dummyWrapper /\ ~sv[1].isnil /\ sv[1].ctype = PtrT(taggedDummy)
  THEN taggedDummy ELSE dummyStruct

\* protobuf.RegisterInterface(func() interface{} { return &dummyStruct{} })
RegisterInterface ==
  /\ DOMAIN ConstructorsFor(st) # {}
  /\ Registrable.id \notin DOMAIN gens
  /\ gens' = [id \in {Registrable.id} |-> PtrT(Registrable)]
  /\ UNCHANGED <<st, sv, raw, cache, enc, dec, mem, out, fvars>>

\* protobuf.SetGenerators(protobuf.NewInterfaceRegistry())
SetGenerators ==
  /\ DOMAIN gens # {}
  /\ gens' = <<>>
  /\ UNCHANGED <<st, sv, raw, cache, enc, dec, mem, out, fvars>>

Next ==
  \/ CallEncode
  \/ CallDecode
  \/ CallDecodeRaw
  \/ CallDecodeBytes
  \/ CallAppend
  \/ RegisterInterface
  \/ SetGenerators

Spec == Init /\ [][Next]_vars


\* ---------------------------------------------- ProtoFields, step by step
\* The struct types the concurrent callers resolve.
FieldTypes == <<Test1, TestNestedOuter, TestDuplicateID, DuplicateEmbedded>>

InitFields ==
  /\ st = Test1
  /\ sv = <<150>>
  /\ raw = NoRaw
  /\ gens = <<>>
  /\ cache = <<>>
  /\ enc = NoEnc
  /\ dec = NoDec
  /\ mem = <<>>
  /\ out = <<>>
  /\ IdleFields

cvars == <<st, sv, raw, gens, enc, dec, mem, out>>

\* What the call of p returns with: the entries idx or the panic msg.
Outcome(p, idx, msg) ==
  [called |-> TRUE, t |-> arg[p], panic |-> msg, idx |-> idx,
   again |-> ret[p].called /\ ret[p].t = arg[p]]

\* p calls ProtoFields(t).
Call(p) ==
  /\ pc[p] = "idle"
  /\ ncalls < MaxCalls
  /\ \E i \in 1..Len(FieldTypes) : arg' = [arg EXCEPT ![p] = FieldTypes[i]]
  /\ pc' = [pc EXCEPT ![p] = "lock1"]
  /\ ncalls' = ncalls + 1
  /\ UNCHANGED <<cvars, cache, lock, loc, ret>>

\* A variant of Lock1 that takes the lock without waiting for it.
Lock1Barging(p) ==
  /\ pc[p] = "lock1"
  /\ lock' = p
  /\ pc' = [pc EXCEPT ![p] = "read"]
  /\ UNCHANGED <<cvars, cache, arg, loc, ret, ncalls>>

\* cacheLock.Lock()
Lock1(p) ==
  /\ pc[p] = "lock1"
  /\ lock = 0
  /\ lock' = p
  /\ pc' = [pc EXCEPT ![p] = "read"]
  /\ UNCHANGED <<cvars, cache, arg, loc, ret, ncalls>>

\* idx, ok := cache[t]
Read(p) ==
  /\ pc[p] = "read"
  /\ loc' = [loc EXCEPT ![p] =
               IF arg[p] \in DOMAIN cache THEN [idx |-> cache[arg[p]], ok |-> TRUE]
               ELSE [idx |-> <<>>, ok |-> FALSE]]
  /\ pc' = [pc EXCEPT ![p] = "unlock1"]
  /\ UNCHANGED <<cvars, cache, lock, arg, ret, ncalls>>

\* cacheLock.Unlock()
Unlock1(p) ==
  /\ pc[p] = "unlock1"
  /\ lock' = 0
  /\ pc' = [pc EXCEPT ![p] = "check"]
  /\ UNCHANGED <<cvars, cache, arg, loc, ret, ncalls>>

\* if ok { return idx }
ReturnCached(p) ==
  /\ pc[p] = "check"
  /\ loc[p].ok
  /\ ret' = [ret EXCEPT ![p] = Outcome(p, loc[p].idx, "")]
  /\ pc' = [pc EXCEPT ![p] = "idle"]
  /\ UNCHANGED <<cvars, cache, lock, arg, loc, ncalls>>

\* idx = innerFieldIndexes(&id, t) and the duplicate scan, which panics out
\* of the call.
Compute(p) ==
  /\ pc[p] = "check"
  /\ ~loc[p].ok
  /\ IF ComputeFields(arg[p]).panic # ""
     THEN /\ ret' = [ret EXCEPT ![p] = Outcome(p, <<>>, ComputeFields(arg[p]).panic)]
          /\ pc' = [pc EXCEPT ![p] = "idle"]
          /\ loc' = loc
     ELSE /\ loc' = [loc EXCEPT ![p].idx = ComputeFields(arg[p]).idx]
          /\ pc' = [pc EXCEPT ![p] = "lock2"]
          /\ ret' = ret
  /\ UNCHANGED <<cvars, cache, lock, arg, ncalls>>

\* cacheLock.Lock(); defer cacheLock.Unlock()
Lock2(p) ==
  /\ pc[p] = "lock2"
  /\ lock = 0
  /\ lock' = p
  /\ pc' = [pc EXCEPT ![p] = "store"]
  /\ UNCHANGED <<cvars, cache, arg, loc, ret, ncalls>>

\* cache[t] = idx
Store(p) ==
  /\ pc[p] = "store"
  /\ cache' = [t \in DOMAIN cache \cup {arg[p]} |->
                 IF t = arg[p] THEN loc[p].idx ELSE cache[t]]
  /\ pc' = [pc EXCEPT ![p] = "unlock2"]
  /\ UNCHANGED <<cvars, lock, arg, loc, ret, ncalls>>

\* return idx, and the deferred cacheLock.Unlock()
Return(p) ==
  /\ pc[p] = "unlock2"
  /\ lock' = 0
  /\ ret' = [ret EXCEPT ![p] = Outcome(p, loc[p].idx, "")]
  /\ pc' = [pc EXCEPT ![p] = "idle"]
  /\ UNCHANGED <<cvars, cache, arg, loc, ncalls>>

NextFields ==
  \/ \E p \in Procs : Call(p)
  \/ \E p \in Procs : Lock1(p)
  \/ \E p \in Procs : Read(p)
  \/ \E p \in Procs : Unlock1(p)
  \/ \E p \in Procs : ReturnCached(p)
  \/ \E p \in Procs : Compute(p)
  \/ \E p \in Procs : Lock2(p)
  \/ \E p \in Procs : Store(p)
  \/ \E p \in Procs : Return(p)

SpecFields == InitFields /\ [][NextFields]_vars

\* ------------------------------------------------ Decode on any input
\* The pieces an input is put together from: fields 1, 2 and 3 as varints
\* (whole and cut short), field 1 length-delimited with two bytes, with a
\* two-field entry, with a length beyond the input, empty and with a varint
\* cut short, field 2 length-delimited, a tag of wire type 3 and a tag cut
\* short.
Chunks ==
  << <<8, 1>>, <<8, 128>>, <<16, 1>>, <<16, 128>>, <<24, 2>>, <<24, 3>>,
     <<10, 2, 8, 1>>, <<10, 4, 8, 1, 16, 1>>, <<10, 4, 8, 1>>, <<10, 0>>,
     <<10, 2, 8, 128>>, <<18, 1, 1>>, <<11>>, <<128>> >>

MaxChunks == 3

RECURSIVE ChunkBytes(_)
\* The input made of the chunks cs.
ChunkBytes(cs) ==
  IF cs = <<>> THEN <<>> ELSE Chunks[Head(cs)] \o ChunkBytes(Tail(cs))

\* The destination types: a packed slice, a map, a nested struct, explicit
\* numbers with a gap, padding members, a padding member of pointer type.
InputTypes ==
  <<Rep(Scalar("uint32")), UintMap, Outer(Test1, 1), Gap, padded, PaddedPtr>>

InitInputs ==
  /\ \E i \in 1..Len(InputTypes) : st = InputTypes[i]
  /\ sv = Zero(st)
  /\ raw = NoRaw
  /\ gens = <<>>
  /\ cache = <<>>
  /\ enc = NoEnc
  /\ dec = NoDec
  /\ mem = <<>>
  /\ out = <<>>
  /\ IdleFields

\* protobuf.Decode(buf, &d) on an input put together from chunks, d fresh;
\* one call in a behaviour, every call being independent of the one before.
CallDecodeInput ==
  /\ dec.src = "none"
  /\ \E cs \in SeqsUpTo(1..Len(Chunks), MaxChunks) :
       LET r == Decode(gens, DOMAIN cache, ChunkBytes(cs), st, Zero(st))
       IN  /\ dec' = [Decoded("input", ChunkBytes(cs), Zero(st), <<>>, r)
                        EXCEPT !.chunks = cs]
           /\ cache' = CacheOf(r.res)
           /\ mem' = ChunkBytes(cs)
           /\ out' = <<>>
  /\ UNCHANGED <<st, sv, raw, gens, enc, fvars>>

NextInputs == CallDecodeInput

SpecInputs == InitInputs /\ [][NextInputs]_vars

\* ------------------------------------------------------------- properties
\* What the properties below compare the codec's output with is written
\* here from the wire format, apart from the codec's own operators.

RECURSIVE ExpVarint(_)
\* The base-128 varint of a number 0 <= x < 2^31.
ExpVarint(x) ==
  IF x < 128 THEN <<x>> ELSE <<128 + (x % 128)>> \o ExpVarint(x \div 128)

\* The varint of the 64-bit two's-complement pattern of -2^31 < x < 0: ten
\* bytes, the bits above the 31st all set.
ExpNegVarint(x) ==
  <<128 + (x % 128), 128 + ((x \div 128) % 128), 128 + ((x \div 16384) % 128),
    128 + ((x \div 2097152) % 128), 128 + ((x \div 268435456) % 128),
    255, 255, 255, 255, 1>>

\* The varint of an integer as the wire carries it, without zigzag.
ExpInt(x) == IF x < 0 THEN ExpNegVarint(x) ELSE ExpVarint(x)

\* The field number the one member of a generated struct type is tagged with.
KeyOf(t) == CHOOSE k \in KeyNums : Itoa(k) = t.fields[1].tag

RECURSIVE Expected(_, _)
\* The value v of type t with its padding members zeroed.
Expected(t, v) ==
  CASE t.kind = "struct" /\ ~t.marshal ->
         [i \in 1..Len(t.fields) |->
            IF t.fields[i].exported THEN Expected(t.fields[i].type, v[i])
            ELSE Zero(t.fields[i].type)]
    [] t.kind = "ptr" -> IF v.isnil THEN v ELSE Ptr(Expected(t.elem, v.elem))
    [] OTHER -> v

RECURSIVE RoundTripField(_)
\* The member types the round-trip law speaks of: bool, integers, fixed-width
\* wrappers, strings, byte sequences, nested structs and pointers to these.
RoundTripField(e) ==
  CASE e.kind \in {"bool", "int", "int32", "int64", "uint", "uint32", "uint64",
                   "string"} -> TRUE
    [] e.kind = "slice" -> e.elem.kind = "uint8"
    [] e.kind = "ptr" -> RoundTripField(e.elem)
    [] e.kind = "struct" ->
         /\ ~e.marshal
         /\ \E i \in 1..Len(e.fields) : e.fields[i].exported
         /\ \A i \in 1..Len(e.fields) : RoundTripField(e.fields[i].type)
    [] OTHER -> FALSE

\* No field number is declared twice, whatever the order of the numbers.
DistinctNumbers(t) ==
  \A i, j \in 1..Len(innerFieldIndexes(0, t).out) :
     i # j => innerFieldIndexes(0, t).out[i].ID # innerFieldIndexes(0, t).out[j].ID

\* C1: for every supported struct type, whatever numbers its fields declare,
\* Encode succeeds, and Decode of its output into a fresh value succeeds and
\* leaves the value that was encoded, padding members zero.
C1_RoundTrip ==
  (RoundTripField(st) /\ DistinctNumbers(st)) =>
     /\ enc.done => enc.err = ""
     /\ (dec.src = "enc" /\ dec.fresh) =>
          dec.err = "" /\ dec.val = Expected(st, sv)

\* C2: a repeated field of a numeric kind the decoder reads packed is written
\* by Encode as one length-delimited field holding all the elements, and
\* Decode of the output into a fresh struct gives the elements back.
C2_PackedRepeated ==
  (st.name = "Rep" /\ sv[1] # <<>>) =>
     /\ enc.done =>
          /\ enc.err = ""
          /\ Len(enc.b) >= 2
          /\ enc.b[1] = 8 * 1 + BytesType
          /\ enc.b[2] = Len(enc.b) - 2
     /\ (dec.src = "enc" /\ dec.fresh) => dec.err = "" /\ dec.val = sv

C4_NestedStruct ==
  /\ (enc.done /\ st.name = "Outer") =>
       /\ enc.err = ""
       /\ enc.b = ExpVarint(8 * KeyOf(st) + BytesType)
                    \o ExpVarint(Len(Encode(<<>>, <<>>, {}, st.fields[1].type, sv[1]).b))
                    \o Encode(<<>>, <<>>, {}, st.fields[1].type, sv[1]).b
  /\ (enc.done /\ st = Test3) => enc.b = <<26, 3, 8, 150, 1>>

\* The struct of the example has been encoded.
C4_Witness == enc.done /\ st = Test3 /\ enc.b = <<26, 3, 8, 150, 1>>

\* The known fields of the hand-built input, the unknown one taken out.
WithoutUnknown == Decode(<<>>, {}, InputBytes(raw.ks), st, Zero(st))

\* C5 as stated: wherever the field of an unknown number stands in the input,
\* Decode returns no error and every known field ends as it would without it.
C5_UnknownAnywhere ==
  dec.src = "raw" => dec.err = "" /\ dec.val = WithoutUnknown.val

\* Every known field behind the unknown one has a greater number than it.
UnknownBelowRest ==
  \A i \in (raw.pos + 1)..Len(raw.ks) : raw.ks[i].num > raw.u.num

\* C5: a well-formed field of an unknown number is skipped without an error,
\* and every known field ends as it would without it, provided the known
\* fields that follow it in the input have greater numbers than it.
C5_UnknownSkipped ==
  (dec.src = "raw" /\ UnknownBelowRest) =>
     dec.err = "" /\ dec.val = WithoutUnknown.val

\* An unknown field numbered 2 stood before the known field 3, which was set.
C5_Witness ==
  /\ dec.src = "raw"
  /\ raw.u.num = 2
  /\ raw.pos < Len(raw.ks)
  /\ UnknownBelowRest
  /\ dec.err = ""
  /\ dec.val[2] = 7

\* C6: on a struct type in which two entries get the same field number,
\* every call of ProtoFields panics and the type never enters the cache.
C6_DuplicatePanics ==
  \A i \in 1..Len(FieldTypes) :
     FieldTypes[i].name \in {"TestDuplicateID", "DuplicateEmbedded"} =>
        /\ FieldTypes[i] \notin DOMAIN cache
        /\ \A p \in Procs :
             (ret[p].called /\ ret[p].t = FieldTypes[i]) =>
                ret[p].panic = "protobuf ID reused"

\* A caller's second call in a row on TestDuplicateID has panicked as well.
C6_Witness ==
  \E p \in Procs :
     /\ ret[p].called
     /\ ret[p].again
     /\ ret[p].t = TestDuplicateID
     /\ ret[p].panic # ""

\* C7: every byte slice Decode stored has a capacity equal to its length,
\* and no append to one of them changes the bytes of another.
C7_NoAliasing ==
  \A w \in dec.views :
     /\ w.cap = w.len
     /\ SubSeq(mem, w.off + 1, w.off + w.len) = w.b

\* Both buffers of T were decoded, and three bytes appended to the first.
C7_Witness ==
  /\ st = T
  /\ sv = <<StrAbc, StrDef>>
  /\ dec.val = sv
  /\ Cardinality(dec.views) = 2
  /\ out = StrAbc \o SubSeq(StrGhi, 1, 3)

\* A member of v is a sequence of sequences of something other than bytes, or
\* a map holding a nil pointer or a sequence of something other than bytes.
Unsupported(t, v) ==
  \E i \in 1..Len(t.fields) :
     \/ /\ t.fields[i].type.kind = "slice"
        /\ t.fields[i].type.elem.kind \in {"slice", "array"}
        /\ t.fields[i].type.elem.elem.kind # "uint8"
     \/ /\ t.fields[i].type.kind = "map"
        /\ DOMAIN v[i] # {}
        /\ \/ /\ t.fields[i].type.elem.kind = "ptr"
              /\ \E k \in DOMAIN v[i] : v[i][k].isnil
           \/ /\ t.fields[i].type.elem.kind \in {"slice", "array"}
              /\ t.fields[i].type.elem.elem.kind # "uint8"

\* C8: Encode of a value of an unsupported shape returns an error and no
\* bytes.
C8_UnsupportedRejected ==
  (enc.done /\ Unsupported(st, sv)) => enc.err # "" /\ enc.b = <<>>

\* The sequence of sequences of int behind an int field was rejected.
C8_Witness ==
  /\ enc.done
  /\ st = PartialSlice
  /\ enc.err = "protobuf: no support for 2-dimensional array except for [][]byte"
  /\ enc.b = <<>>

\* A key or value x of type e as field num of a map entry.
ExpEntryField(num, e, x) ==
  CASE e.kind = "bool" -> <<8 * num + VarintType, IF x THEN 1 ELSE 0>>
    [] e.kind \in {"int32", "uint32"} -> <<8 * num + VarintType>> \o ExpInt(x)
    [] e.kind \in {"string", "slice"} -> <<8 * num + BytesType, Len(x)>> \o x
    [] e.kind = "ptr" ->
         <<8 * num + BytesType, Len(Encode(<<>>, <<>>, {}, e.elem, x.elem).b)>>
           \o Encode(<<>>, <<>>, {}, e.elem, x.elem).b

\* The entry of key k of map m as field 1 of the struct: the key as field 1,
\* the value as field 2.
ExpEntry(t, m, k) ==
  <<8 * 1 + BytesType,
    Len(ExpEntryField(1, t.key, k) \o ExpEntryField(2, t.elem, m[k]))>>
    \o ExpEntryField(1, t.key, k) \o ExpEntryField(2, t.elem, m[k])

RECURSIVE ExpEntries(_, _, _)
\* The entries of m in the order ks.
ExpEntries(t, m, ks) ==
  IF ks = <<>> THEN <<>>
  ELSE ExpEntry(t, m, Head(ks)) \o ExpEntries(t, m, Tail(ks))

\* The struct has one map member whose values are each written as one field.
MapCase ==
  /\ st.name \in {"typ", "StringMap", "BytesMap", "rightTestMsg"}
  /\ \A k \in DOMAIN sv[1] : st.name = "rightTestMsg" => ~sv[1][k].isnil

\* C9: Encode writes one length-delimited field per map entry, the key as
\* field 1 and the value as field 2 of its payload, zero values included;
\* {"": true, "test": true} takes 16 bytes; Decode rebuilds the map.
C9_MapEntries ==
  MapCase =>
     /\ enc.done =>
          /\ enc.err = ""
          /\ Len(enc.ord) = Cardinality(DOMAIN sv[1])
          /\ enc.b = ExpEntries(st.fields[1].type, sv[1], enc.ord)
          /\ (st = typ /\ DOMAIN sv[1] = {<<>>, StrTest}) => Len(enc.b) = 16
     /\ (dec.src = "enc" /\ dec.fresh) => dec.err = "" /\ dec.val = sv

\* The two-entry map of the example took 16 bytes and was decoded again.
C9_Witness ==
  /\ st = typ
  /\ DOMAIN sv[1] = {<<>>, StrTest}
  /\ Len(enc.b) = 16
  /\ dec.src = "enc"
  /\ dec.fresh
  /\ dec.val = sv

\* C10: a self-marshalling value behind an abstract field is written as its
\* Type Tag and payload when the tag has a factory in the registry, as the
\* payload alone when it has none; decoding either into a fresh destination
\* with an empty registry and no constructor fails with "no constructor".
C10_TypeTagged ==
  (st = dummyWrapper /\ ~sv[1].isnil) =>
     /\ enc.done =>
          /\ enc.err = ""
          /\ enc.b = IF sv[1].ctype.elem.id \in DOMAIN enc.gens
                     THEN <<8 * 1 + BytesType, GeneratorIDLen + Len(sv[1].elem.elem.p)>>
                            \o sv[1].ctype.elem.id \o sv[1].elem.elem.p
                     ELSE <<8 * 1 + BytesType, Len(sv[1].elem.elem.p)>>
                            \o sv[1].elem.elem.p
     /\ (dec.src = "enc" /\ dec.fresh /\ DOMAIN dec.gens = {} /\ DOMAIN dec.cons = {}) =>
          dec.err = "no constructor for interface"

\* The tagged encoding of the example was decoded under an empty registry.
C10_Witness ==
  /\ st = dummyWrapper
  /\ enc.b = <<10, 11>> \o DummyID \o <<1, 2, 3>>
  /\ dec.src = "enc"
  /\ DOMAIN dec.gens = {}
  /\ DOMAIN dec.cons = {}
  /\ dec.err = "no constructor for interface"

\* The number, name override and index path (members counted from 1) of the
\* entries idx.
EntriesOf(idx) == [k \in 1..Len(idx) |-> <<idx[k].ID, idx[k].Name, idx[k].Index>>]

\* C11: the entries of a struct type are numbered in declaration order by a
\* counter that starts at 0 and is incremented before each member; a numeric
\* tag replaces the counter and later members continue from it; an embedded
\* member contributes its own members' entries, numbered on from the
\* counter, their paths prefixed with the embedding member, and the counter
\* carries on after them. {A; *{A; B `10`; C `renamed`}} gets (1,[0]),
\* (2,[1,0]), (10,[1,1]), (11,"renamed",[1,2]).
C11_FieldNumbering ==
  /\ TestNestedOuter \in DOMAIN cache =>
       EntriesOf(cache[TestNestedOuter]) =
         << <<1, <<>>, <<1>> >>, <<2, <<>>, <<2, 1>> >>, <<10, <<>>, <<2, 2>> >>,
            <<11, <<"r", "e", "n", "a", "m", "e", "d">>, <<2, 3>> >> >>
  /\ Numbered \in DOMAIN cache =>
       EntriesOf(cache[Numbered]) =
         << <<5, <<>>, <<1>> >>, <<6, <<>>, <<2>> >>, <<7, <<>>, <<3, 1>> >>,
            <<8, <<>>, <<4>> >> >>
  /\ mixed \in DOMAIN cache =>
       [k \in 1..Len(cache[mixed]) |-> cache[mixed][k].ID] =
         <<1, 2, 3, 4, 5, 6, 7, 8, 9, 50>>
  /\ \A t \in DOMAIN cache :
       /\ t.name = "IntStruct" => EntriesOf(cache[t]) = << <<KeyOf(t), <<>>, <<1>> >> >>
       /\ (\A i \in 1..Len(t.fields) : t.fields[i].tag = <<>> /\ ~t.fields[i].anonymous)
            => EntriesOf(cache[t]) = [i \in 1..Len(t.fields) |-> <<i, <<>>, <<i>> >>]

\* The entries of the example and of a struct with a member behind an
\* embedded one have been resolved.
C11_Witness ==
  /\ st \in {TestNestedOuter, Numbered}
  /\ st \in DOMAIN cache
  /\ Len(cache[st]) = 4

RECURSIVE HasUnwritable(_, _, _)
\* The value v of type t is, or holds in a member or behind a non-nil
\* pointer, a struct none of whose members can be set and which has at
\* least min members.
HasUnwritable(t, v, min) ==
  CASE t.kind = "struct" /\ ~t.marshal ->
         \/ Len(t.fields) >= min /\ \A i \in 1..Len(t.fields) : ~t.fields[i].exported
         \/ \E i \in 1..Len(t.fields) :
              t.fields[i].exported /\ HasUnwritable(t.fields[i].type, v[i], min)
    [] t.kind = "ptr" -> ~v.isnil /\ HasUnwritable(t.elem, v.elem, min)
    [] OTHER -> FALSE

FreshDecode ==
  DecodeWithConstructors(dec.gens, {}, dec.in, st, Zero(st), dec.cons)

AbstractEntries ==
  {k \in 1..Len(ComputeFields(st).idx) :
     /\ ComputeFields(st).idx[k].Field.type.kind = "interface"
     /\ ComputeFields(st).idx[k].Field.exported}

\* The member of entry k in the destination before and after the last Decode.
HeldBefore(k) == FieldByIndex(st, dec.dst, ComputeFields(st).idx[k].Index)
HeldAfter(k) == FieldByIndex(st, dec.val, ComputeFields(st).idx[k].Index)

\* C14: an abstract member in the field entry list, also one reached through
\* an embedded member, that held a value before Decode still holds a value
\* of the same concrete type after it, and the call never fails for want of
\* a constructor for it.
C14_AbstractPreserved ==
  dec.src = "enc" =>
    \A k \in AbstractEntries :
       (HeldBefore(k).ok /\ ~HeldBefore(k).val.isnil) =>
          /\ HeldAfter(k).ok
          /\ ~HeldAfter(k).val.isnil
          /\ HeldAfter(k).val.ctype = HeldBefore(k).val.ctype
          /\ dec.err # "no constructor for interface"

\* The same for the abstract members that are members of the struct itself.
C14_DirectPreserved ==
  dec.src = "enc" =>
    \A k \in AbstractEntries :
       (Len(ComputeFields(st).idx[k].Index) = 1 /\ ~HeldBefore(k).val.isnil) =>
          /\ ~HeldAfter(k).val.isnil
          /\ HeldAfter(k).val.ctype = HeldBefore(k).val.ctype
          /\ dec.err # "no constructor for interface"
          /\ (st \in {Wrapper, WrapperNoMarshal} /\ ~sv[1].isnil) =>
               dec.err = "" /\ dec.val = sv

\* The last Decode was given the encoding of a struct whose one member is
\* abstract and set, a destination in which it is unset, and a Constructor
\* Table with a factory for its type.
UnsetWithConstructor ==
  /\ dec.src = "enc"
  /\ Len(st.fields) = 1
  /\ st.fields[1].type.kind = "interface"
  /\ st.fields[1].exported
  /\ dec.dst[1].isnil
  /\ dec.in # <<>>
  /\ st.fields[1].type.name \in DOMAIN dec.cons

\* The payload of the one field of the input (shorter than 128 bytes).
AbstractPayload == SubSeq(dec.in, 3, Len(dec.in))

\* The payload begins with a Type Tag the registry of the call knows.
BeginsWithTag ==
  /\ Len(AbstractPayload) >= GeneratorIDLen
  /\ SubSeq(AbstractPayload, 1, GeneratorIDLen) \in DOMAIN dec.gens

C16_PanicsRecovered ==
  /\ dec.recovered => dec.err # ""
  /\ (enc.done /\ enc.err # "") => enc.b = <<>>

\* Encode panicked on a duplicate field number and returned the error with
\* no bytes; Decode into the same type panicked too and returned it.
C16_Witness ==
  /\ enc.done
  /\ enc.err = "protobuf ID reused"
  /\ enc.b = <<>>
  /\ dec.src = "noenc"
  /\ dec.recovered
  /\ dec.err = "protobuf ID reused"

\* The last Decode was given one field for a struct whose one member is
\* abstract, and a destination in which it is unset.
UnsetAbstract ==
  /\ dec.src \in {"enc", "bytes"}
  /\ st = dummyWrapper
  /\ dec.dst[1].isnil
  /\ dec.in # <<>>

\* C17: decoding into an unset abstract member, a payload of at least 8
\* bytes whose leading 8 bytes are a registered Type Tag is instantiated by
\* the registry's factory, which is given the payload without the tag.
C17_LookupAtLeastTag ==
  (UnsetAbstract /\ BeginsWithTag) =>
     /\ ~dec.val[1].isnil
     /\ dec.val[1].ctype = dec.gens[SubSeq(AbstractPayload, 1, GeneratorIDLen)]
     /\ dec.err # "no constructor for interface"

\* The same for payloads longer than the tag, which the lookup does reach.
C17_LookupBeyondTag ==
  (UnsetAbstract /\ BeginsWithTag /\ Len(AbstractPayload) > GeneratorIDLen) =>
     /\ ~dec.val[1].isnil
     /\ dec.val[1].ctype = dec.gens[SubSeq(AbstractPayload, 1, GeneratorIDLen)]
     /\ dec.err # "no constructor for interface"

\* The last Decode was given one hand-written entry of a map[uint32]uint32.
EntryDecoded == dec.src = "bytes" /\ st = UintMap
TheEntry == MapEntries[dec.hand]
KeyFields == {i \in 1..Len(TheEntry) : TheEntry[i].num = 1}
ValueFields == {i \in 1..Len(TheEntry) : TheEntry[i].num >= 2}
Last(S) == CHOOSE i \in S : \A j \in S : j <= i

\* C18: an entry payload without a key or without a value makes Decode
\* return an error, and no entry is added to the map.
C18_MissingRejected ==
  (EntryDecoded /\ (KeyFields = {} \/ ValueFields = {})) =>
     dec.err # "" /\ DOMAIN dec.val[1] = {}

\* C19: field 1 of an entry payload is the key and the fields numbered 2 or
\* more are the value, in whatever order they stand in the payload.
C19_KeyIsFieldOne ==
  (EntryDecoded /\ KeyFields # {} /\ ValueFields # {}) =>
     /\ dec.err = ""
     /\ dec.val[1] = (TheEntry[Last(KeyFields)].body[1]
                        :> TheEntry[Last(ValueFields)].body[1])

\* The same for entries whose first field is the key, as the encoder
\* writes them.
C19_KeyFirst ==
  (EntryDecoded /\ KeyFields = {1} /\ ValueFields # {}) =>
     /\ dec.err = ""
     /\ dec.val[1] = (TheEntry[1].body[1] :> TheEntry[Last(ValueFields)].body[1])

\* The field numbers of the entries idx rise strictly.
Ascending(idx) == \A i \in 1..(Len(idx) - 1) : idx[i].ID < idx[i + 1].ID

\* C20: the list ProtoFields returns and stores in the cache is in strictly
\* ascending order of field number, for every struct type.
C20_AscendingEntries == \A t \in DOMAIN cache : Ascending(cache[t])

\* The same for struct types none of whose direct members has a tag.
C20_AscendingUntagged ==
  \A t \in DOMAIN cache :
    (\A i \in 1..Len(t.fields) : t.fields[i].tag = <<>>) => Ascending(cache[t])

\* C21: in every interleaving of concurrent ProtoFields calls the cache is
\* read and written only by the caller that holds the lock; no caller holds
\* the lock while it computes, after it panicked or after it returned; every
\* call that returns a list returns the entries of its type, the same in
\* content for every caller; and a cached list is the entries of its type
\* from the moment it is stored.
C21_CacheUnderLock ==
  /\ \A p \in Procs :
       /\ pc[p] \in {"read", "unlock1", "store", "unlock2"} => lock = p
       /\ pc[p] \in {"idle", "lock1", "check", "lock2"} => lock # p
       /\ (ret[p].called /\ ret[p].panic = "") =>
            ret[p].idx = ComputeFields(ret[p].t).idx
  /\ lock \in {0} \cup Procs
  /\ \A t \in DOMAIN cache :
       ComputeFields(t).panic = "" /\ cache[t] = ComputeFields(t).idx

\* Two callers computed the entries of the same type; one has stored its
\* list and holds the lock, the other waits to store its own.
C21_Witness ==
  /\ pc[1] = "unlock2"
  /\ pc[2] = "lock2"
  /\ arg[1] = arg[2]
  /\ arg[1] \in DOMAIN cache
  /\ lock = 1

\* C22: Decode returns on every input: no loop of the decoder goes round
\* without shortening its buffer, and no nested payload is as long as the
\* buffer it was cut from.
C22_DecodeTerminates == ~dec.stalled

\* The field loop went round twice, each time into a map entry whose loop
\* read a key and a value.
C22_Witness ==
  /\ st = UintMap
  /\ dec.chunks = <<8, 8>>
  /\ dec.in = <<10, 4, 8, 1, 16, 1, 10, 4, 8, 1, 16, 1>>
  /\ dec.err = ""
  /\ dec.val[1] = (1 :> 1)

\* The last Decode was given one chunk that begins with a well-formed tag,
\* and failed.
OneFieldFailed ==
  /\ dec.src = "input"
  /\ Len(dec.chunks) = 1
  /\ ConsumeTag(dec.in).n > 0
  /\ dec.err # ""

\* The entries of st whose number is the number of the input's first tag.
Owners ==
  {i \in 1..Len(cache[st]) : cache[st][i].ID = ConsumeTag(dec.in).num}

\* C23: the error of a field whose payload fails to decode is wrapped with
\* the descriptor of the struct field that has the number of the failing
\* field's tag, and with no other field's.
C23_AnnotatedWithOwner ==
  OneFieldFailed =>
     IF Owners = {} THEN dec.at = <<>>
     ELSE /\ dec.at # <<>>
          /\ \E i \in Owners : dec.at[Len(dec.at)] = cache[st][i].Field.name

\* The same for a failing field whose number a struct field has, when the
\* failure is a returned error and not a panic.
C23_KnownAnnotated ==
  (OneFieldFailed /\ Owners # {} /\ ~dec.recovered) =>
     /\ dec.at # <<>>
     /\ \E i \in Owners : dec.at[Len(dec.at)] = cache[st][i].Field.name

\* The last Decode was given, for a struct whose member numbered 2 is a
\* padding member, well-formed fields numbered 2 and nothing else.
PaddingDecoded ==
  /\ dec.src = "input"
  /\ st \in {padded, PaddedPtr}
  /\ dec.chunks # <<>>
  /\ \A i \in 1..Len(dec.chunks) : dec.chunks[i] \in {3, 12}

\* C24: a padding member of any type, pointer types included, keeps its
\* field number, and Decode discards a well-formed field with that number
\* without an error and without changing the destination.
C24_PaddingDiscarded ==
  PaddingDecoded =>
     /\ cache[st][2].ID = 2 /\ ~cache[st][2].Field.exported
     /\ dec.err = ""
     /\ dec.val = dec.dst

\* The same for a padding member that is not a pointer.
C24_ValuePaddingDiscarded ==
  (PaddingDecoded /\ st = padded) =>
     /\ cache[st][2].ID = 2 /\ ~cache[st][2].Field.exported
     /\ dec.err = ""
     /\ dec.val = dec.dst

\* The last Decode was given, for the struct with members numbered 1 and 3,
\* whole varint fields numbered 1, 2 and 3 in some order.
FieldsInAnyOrder ==
  /\ dec.src = "input"
  /\ st = Gap
  /\ \A i \in 1..Len(dec.chunks) : dec.chunks[i] \in {1, 3, 5, 6}

\* The positions of the fields numbered 3 in the input.
Threes == {i \in 1..Len(dec.chunks) : dec.chunks[i] \in {5, 6}}

\* C25: the cursor over the field entries never moves backwards: a field
\* numbered 1 that follows a field with a greater number is discarded
\* without an error and its member stays zero, while a field with the
\* number of the entry the cursor rests on is applied again.
C25_MonotonicCursor ==
  FieldsInAnyOrder =>
     /\ dec.err = ""
     /\ dec.val[1] = IF dec.chunks # <<>> /\ dec.chunks[1] = 1 THEN 1 ELSE 0
     /\ dec.val[2] = IF Threes = {} THEN 0
                     ELSE Chunks[dec.chunks[Last(Threes)]][2]

\* Field 3, then field 1, then field 3 again: the member numbered 1 is zero
\* and the member numbered 3 holds the later value.
C25_Witness ==
  /\ FieldsInAnyOrder
  /\ dec.chunks = <<5, 1, 6>>
  /\ dec.err = ""
  /\ dec.val = <<0, 3>>

\* C26: every entry ProtoFields returns has a positive field number,
\* whatever the tags hold, negative numbers and "0" included.
C26_PositiveNumbers ==
  \A t \in DOMAIN cache : \A i \in 1..Len(cache[t]) : cache[t][i].ID > 0

\* The same for struct types no member of which has a tag with a negative
\* number.
C26_PositiveUnlessNegativeTag ==
  \A t \in DOMAIN cache :
    (\A j \in 1..Len(t.fields) : ParseTag(t.fields[j]).id >= 0) =>
       \A i \in 1..Len(cache[t]) : cache[t][i].ID > 0

\* The last Decode was given what Encode wrote for a self-marshalling value
\* in an abstract member, under the registry Encode ran with, and handed a
\* payload to the UnmarshalBinary of an instance that keeps what it is given.
Unmarshalled ==
  /\ dec.src = "enc"
  /\ st \in {dummyWrapper, Wrapper}
  /\ ~sv[1].isnil
  /\ dec.in = enc.b
  /\ dec.gens = enc.gens
  /\ dec.err = ""
  /\ ~dec.val[1].isnil
  /\ HasMarshaler(dec.val[1].ctype)
  /\ ~MarshalerType(dec.val[1].ctype).unmarshalErr

\* C27: the bytes Decode hands to UnmarshalBinary are the payload p the
\* value marshalled to, without the Type Tag, whether the member of the
\* destination was unset or held an instance.
C27_PayloadHanded ==
  Unmarshalled =>
     dec.val[1].elem.elem.p = MarshalBinary(sv[1].ctype, sv[1].elem)

\* The same when Encode wrote no Type Tag, or the member was unset and the
\* payload was longer than the tag.
C27_PayloadHandedUntagged ==
  (Unmarshalled /\ (Len(AbstractPayload) = Len(MarshalBinary(sv[1].ctype, sv[1].elem))
                    \/ (dec.dst[1].isnil /\ MarshalBinary(sv[1].ctype, sv[1].elem) # <<>>))) =>
     dec.val[1].elem.elem.p = MarshalBinary(sv[1].ctype, sv[1].elem)

\* A fresh destination of type t decoded, with a Constructor Table holding
\* a factory for every abstract type below t, from the bytes Encode made of
\* a value whose abstract members are all set.
DecodedWithTable(t) ==
  /\ st = t
  /\ dec.src = "enc"
  /\ dec.in = enc.b
  /\ enc.err = ""
  /\ dec.fresh
  /\ DOMAIN dec.cons = AbstractNames(t)

\* C28: the Constructor Table passed to DecodeWithConstructors is in effect
\* at every nesting depth: an unset abstract field is instantiated from it
\* whether it is reached through a nested struct, a pointer, a sequence, a
\* map value, or through another abstract field whose concrete value is
\* decoded structurally.
C28_ConstructorsEverywhere ==
  \A t \in {InStruct, InPtr, InSlice, InMap, InAbstract} :
    DecodedWithTable(t) => dec.err = "" /\ dec.val = sv

\* The table is in effect below nested structs, pointers, sequences and map
\* values.
C28_ConstructorsBelowConcrete ==
  \A t \in {InStruct, InPtr, InSlice, InMap} :
    DecodedWithTable(t) => dec.err = "" /\ dec.val = sv

============================================================================
